---- MODULE Spec2Model ----
(***************************************************************************)
(* A model of onnx-ir-core's graph mutation engine:                        *)
(*   - linked_list.rs : DoublyLinkedList (circular ring of LinkBox with a  *)
(*     sentinel root) and its Iter;                                        *)
(*   - graph.rs       : the Graph wrappers over the node list;             *)
(*   - value.rs / node.rs : use-def tracking (weak consumer entries).      *)
(*   - metadata.rs    : MetadataStore (values with a validity flag).       *)
(*   - shape.rs       : Shape (dimensions, denotations, frozen flag).      *)
(*   - name_authority.rs : NameAuthority (unique value and node names).    *)
(* Links, nodes and values are named by small integers that stand for the  *)
(* identity of an Rc allocation; an identity is never reused.              *)
(***************************************************************************)
EXTENDS Integers, Sequences, FiniteSets, TLC

\* Bounds of the model.
MaxPush == 3        \* pushes (LinkBox allocations) in one behaviour
MaxIter == 1        \* iter() calls in one behaviour
NumValues == 2      \* Values that exist
MaxNodes == 2       \* nodes made in one behaviour
MaxInputs == 2      \* inputs of one node, and input positions 0 .. MaxInputs - 1
MaxConsumers == 2   \* consumer entries stored in one Value
MaxOutputs == 1     \* outputs of one node
NumKeys == 3        \* metadata keys
NumPayloads == 2    \* metadata payloads of one type
IntBits == 3        \* width in bits of the modelled i64 and usize
MaxRank == 2        \* rank of a Shape
NumSymbols == 1     \* named symbols of a symbolic dimension
MaxCounter == 2     \* value of a NameAuthority counter at which naming stops
MaxMove == 1        \* relocations of an element in one behaviour
NumNames == 2       \* names a Value can be given

\* Option::None for a link reference (prev/next of a LinkBox, Iter::current).
NoLink == -1
\* Option::None for a payload slot or a returned Option<T>; payloads are >= 1.
NoValue == 0
\* The sentinel link is the first allocation of a list.
root == 0

VARIABLES
    list,       \* DoublyLinkedList: [links, length, panic]
    it,         \* the Iter in flight: [live, current, root]
    ret,        \* what the last operation returned (NoValue for None / unit)
    expRet,     \* history: what the reference sequence says it returns
    lastOp,     \* name of the last operation
    ref,        \* history: the reference sequence
    nPush,      \* history: number of pushes
    nPop,       \* history: number of pops that returned an element
    nIter,      \* history: number of iter() calls
    yielded,    \* history: elements yielded by the traversal in flight
    ended,      \* history: the traversal in flight has reported its end
    removed,    \* history: elements removed so far
    insAfter,   \* history: elements pushed at the back before the traversal ended, its last yield still listed
    insBefore,  \* history: elements pushed at the front after the traversal's first yield
    frontPushed,\* history: elements that were added by push_front
    mutated,    \* history: the container was mutated since iter()
    skips,      \* history: erased links the traversal in flight stepped over
    diverged,   \* history: a next() call entered a loop that never returns
    atStart,    \* history: the reference sequence when the traversal in flight started
    afterEnd,   \* history: elements pushed after the traversal in flight reported its end
    relocated,  \* history: the last operation took an element out and put it back at the
                \* other end: [atCursor, follower], atCursor when the element was the one
                \* Iter::current pointed at, follower what followed it where it was
    values,     \* each Value: [name, shape, type_, producer, consumers]
    nodes,      \* each Rc<RefCell<Node>> made so far: [alive, inputs, outputs]
    discipline, \* history: "paired" while consumer lists were changed only by node_add_input,
                \* prune_dead_consumers and replace_all_uses_with of another Value; "raw" once
                \* add_consumer, remove_consumer or clear_consumers was called directly;
                \* "self" once a Value was replaced by itself
    data,       \* MetadataStore::data: the stored value of each key present
    invalid_keys, \* MetadataStore::invalid_keys
    stale,      \* history: the keys invalidated since they were last inserted
    shape,      \* the Shape observed: [dims, denotations, frozen]
    shapePanic, \* the last Shape operation ended in a panic
    frozenAs,   \* history: the Shape as it was when freeze() was first called, if it was
    authority,  \* NameAuthority: [value_counter, node_counter, value_names, node_names]
    issued,     \* the name the last unique_*_name call returned, if the last call was one
    seenValues, \* history: value names returned or registered since new() or clear()
    seenNodes,  \* history: node names returned or registered since new() or clear()
    collided,   \* history: a unique_*_name call returned a name seen before
    initializers, \* Graph::initializers: the entries <<name, Value>> of the HashMap
    namesWhenAdded \* history: for each Value, the names it had when add_initializer was given it

listVars == <<list, it, ret, expRet, lastOp, ref, nPush, nPop, nIter, yielded, ended,
              removed, insAfter, insBefore, frontPushed, mutated, skips, diverged,
              atStart, afterEnd, relocated>>

valueVars == <<values, nodes, discipline>>

metaVars == <<data, invalid_keys, stale>>

shapeVars == <<shape, shapePanic, frozenAs>>

nameVars == <<authority, issued, seenValues, seenNodes, collided>>

graphVars == <<initializers, namesWhenAdded>>

vars == <<listVars, valueVars, metaVars, shapeVars, nameVars, graphVars>>

----------------------------------------------------------------------------
\* linked_list.rs: LinkBox

LinkBox_new(value) == [prev |-> NoLink, next |-> NoLink, value |-> value]

sentinel == [prev |-> NoLink, next |-> NoLink, value |-> NoValue]

is_erased(L, i) == L.links[i].value = NoValue

\* Mutant: erase unlinks the link but leaves its payload in the slot.
erase_keeps_value(L, i) ==
    LET prev == L.links[i].prev
        next == L.links[i].next
        l1 == [L.links EXCEPT ![prev].next = next]
        l2 == [l1 EXCEPT ![next].prev = prev]
    IN [list |-> [L EXCEPT !.links = l2], ret |-> L.links[i].value]

\* Mutant: erase redirects prev.next but not next.prev.
erase_forward_only(L, i) ==
    IF is_erased(L, i)
    THEN [list |-> L, ret |-> NoValue]
    ELSE LET prev == L.links[i].prev
             next == L.links[i].next
             l1 == [L.links EXCEPT ![prev].next = next]
         IN [list |-> [L EXCEPT !.links = [l1 EXCEPT ![i].value = NoValue]],
             ret  |-> L.links[i].value]

\* Mutant: erase leaves the link's own prev and next empty.
erase_drops_links(L, i) ==
    IF is_erased(L, i)
    THEN [list |-> L, ret |-> NoValue]
    ELSE LET prev == L.links[i].prev
             next == L.links[i].next
             l1 == [L.links EXCEPT ![prev].next = next]
             l2 == [l1 EXCEPT ![next].prev = prev]
         IN [list |-> [L EXCEPT !.links = [l2 EXCEPT ![i] = sentinel]],
             ret  |-> L.links[i].value]

\* erase: unlink i from its neighbours (its own prev/next are kept) and take
\* the payload.  Returns the new list and the taken payload.
erase(L, i) ==
    IF is_erased(L, i)
    THEN [list |-> L, ret |-> NoValue]
    ELSE LET prev == L.links[i].prev
             next == L.links[i].next
             l1 == IF prev # NoLink /\ next # NoLink
                   THEN [L.links EXCEPT ![prev].next = next]
                   ELSE L.links
             l2 == IF prev # NoLink /\ next # NoLink
                   THEN [l1 EXCEPT ![next].prev = prev]
                   ELSE l1
         IN [list |-> [L EXCEPT !.links = [l2 EXCEPT ![i].value = NoValue]],
             ret  |-> L.links[i].value]

----------------------------------------------------------------------------
\* linked_list.rs: DoublyLinkedList

DoublyLinkedList_new ==
    [links  |-> (root :> [sentinel EXCEPT !.prev = root, !.next = root]),
     length |-> 0,
     panic  |-> FALSE]

len(L) == L.length

is_empty(L) == L.length = 0

\* Rc::new of a LinkBox: the next unused identity.
fresh(L) == Cardinality(DOMAIN L.links)

\* Mutant: insert_before_link forgets before.prev.set(new_link).
insert_before_link_no_back(L, before, new_link, value) ==
    LET prev == L.links[before].prev
        l0 == L.links @@ (new_link :> LinkBox_new(value))
        l1 == [l0 EXCEPT ![new_link].prev = prev, ![new_link].next = before]
        l2 == [l1 EXCEPT ![prev].next = new_link]
    IN [L EXCEPT !.links = l2, !.length = @ + 1]

\* insert_before_link; new_link is the identity of a freshly made LinkBox
\* holding value.  unwrap() of a missing prev panics.
insert_before_link(L, before, new_link, value) ==
    LET prev == L.links[before].prev
        l0 == L.links @@ (new_link :> LinkBox_new(value))
        l1 == [l0 EXCEPT ![new_link].prev = prev, ![new_link].next = before]
        l2 == [l1 EXCEPT ![prev].next = new_link]
        l3 == [l2 EXCEPT ![before].prev = new_link]
    IN IF prev = NoLink
       THEN [L EXCEPT !.panic = TRUE]
       ELSE [L EXCEPT !.links = l3, !.length = @ + 1]

push_back(L, value) == insert_before_link(L, root, fresh(L), value)

\* Mutant: push_front splices before the sentinel, as push_back does.
push_front_at_back(L, value) == insert_before_link(L, root, fresh(L), value)

push_front(L, value) ==
    LET first == L.links[root].next
    IN IF first = NoLink
       THEN [L EXCEPT !.panic = TRUE]
       ELSE insert_before_link(L, first, fresh(L), value)

\* Mutant: pop_back forgets self.length -= 1.
pop_back_keeps_length(L) ==
    IF is_empty(L)
    THEN [list |-> L, ret |-> NoValue]
    ELSE erase(L, L.links[root].prev)

pop_back(L) ==
    IF is_empty(L)
    THEN [list |-> L, ret |-> NoValue]
    ELSE LET last == L.links[root].prev
         IN IF last = NoLink
            THEN [list |-> [L EXCEPT !.panic = TRUE], ret |-> NoValue]
            ELSE IF ~is_erased(L, last) /\ last # root
            THEN erase([L EXCEPT !.length = @ - 1], last)
            ELSE [list |-> L, ret |-> NoValue]

\* Mutant: pop_front without the is_empty guard and the erased/root test;
\* the usize subtraction then overflows on an empty list.
pop_front_unguarded(L) ==
    IF L.length = 0
    THEN [list |-> [L EXCEPT !.panic = TRUE], ret |-> NoValue]
    ELSE erase([L EXCEPT !.length = @ - 1], L.links[root].next)

pop_front(L) ==
    IF is_empty(L)
    THEN [list |-> L, ret |-> NoValue]
    ELSE LET first == L.links[root].next
         IN IF first = NoLink
            THEN [list |-> [L EXCEPT !.panic = TRUE], ret |-> NoValue]
            ELSE IF ~is_erased(L, first) /\ first # root
            THEN erase([L EXCEPT !.length = @ - 1], first)
            ELSE [list |-> L, ret |-> NoValue]

\* Mutant: front reads root.prev.
front_reads_prev(L) ==
    IF is_empty(L) THEN NoValue ELSE L.links[L.links[root].prev].value

front(L) ==
    IF is_empty(L) THEN NoValue
    ELSE LET first == L.links[root].next
         IN IF first = NoLink THEN NoValue ELSE L.links[first].value

back(L) ==
    IF is_empty(L) THEN NoValue
    ELSE LET last == L.links[root].prev
         IN IF last = NoLink THEN NoValue ELSE L.links[last].value

\* Mutant: clear pops one element only.
clear_loop_once(L, pops) ==
    LET r == pop_front(L)
    IN [list |-> r.list, pops |-> IF r.ret # NoValue THEN pops + 1 ELSE pops]

\* clear: while self.pop_front().is_some() {}
\* Returns the list and the number of pop_front calls that returned Some.
RECURSIVE clear_loop(_, _)
clear_loop(L, pops) ==
    LET r == pop_front(L)
    IN IF r.ret # NoValue /\ ~r.list.panic
       THEN clear_loop(r.list, pops + 1)
       ELSE [list |-> r.list, pops |-> pops]

clear(L) == clear_loop(L, 0)

iter(L) == [live |-> TRUE, current |-> L.links[root].next, root |-> root]

\* Mutant: Iter::next without the test for the sentinel.
RECURSIVE Iter_next_loop_no_root_check(_, _, _, _)
Iter_next_loop_no_root_check(L, i, fuel, skipped) ==
    IF i.current = NoLink
    THEN [it |-> i, ret |-> NoValue, skipped |-> skipped, diverged |-> FALSE]
    ELSE IF fuel = 0
    THEN [it |-> i, ret |-> NoValue, skipped |-> skipped, diverged |-> TRUE]
    ELSE LET current == i.current
             moved == [i EXCEPT !.current = L.links[current].next]
         IN IF ~is_erased(L, current)
            THEN [it |-> moved, ret |-> L.links[current].value,
                  skipped |-> skipped, diverged |-> FALSE]
            ELSE Iter_next_loop_no_root_check(L, moved, fuel - 1, skipped + 1)

\* Mutant: Iter::next reports the end when it meets an erased link.
Iter_next_loop_stops_at_erased(L, i, fuel, skipped) ==
    IF i.current = NoLink \/ i.current = i.root
    THEN [it |-> i, ret |-> NoValue, skipped |-> skipped, diverged |-> FALSE]
    ELSE LET current == i.current
             moved == [i EXCEPT !.current = L.links[current].next]
         IN IF ~is_erased(L, current)
            THEN [it |-> moved, ret |-> L.links[current].value,
                  skipped |-> skipped, diverged |-> FALSE]
            ELSE [it |-> moved, ret |-> NoValue, skipped |-> skipped + 1, diverged |-> FALSE]

\* Iter::next.  The loop steps over erased links; `fuel` is the number of
\* links of the list: a call that steps more often has come back to a link
\* it already left, with nothing changed in between, and so never returns.
RECURSIVE Iter_next_loop(_, _, _, _)
Iter_next_loop(L, i, fuel, skipped) ==
    IF i.current = NoLink \/ i.current = i.root
    THEN [it |-> i, ret |-> NoValue, skipped |-> skipped, diverged |-> FALSE]
    ELSE IF fuel = 0
    THEN [it |-> i, ret |-> NoValue, skipped |-> skipped, diverged |-> TRUE]
    ELSE LET current == i.current
             moved == [i EXCEPT !.current = L.links[current].next]
         IN IF ~is_erased(L, current)
            THEN [it |-> moved, ret |-> L.links[current].value,
                  skipped |-> skipped, diverged |-> FALSE]
            ELSE Iter_next_loop(L, moved, fuel - 1, skipped + 1)

\* Mutant: a call that finds the cursor on the sentinel starts over from the
\* first link.
Iter_next_rewinds(L, i) ==
    Iter_next_loop(L, IF i.current = i.root
                      THEN [i EXCEPT !.current = L.links[i.root].next] ELSE i,
                   Cardinality(DOMAIN L.links), 0)

Iter_next(L, i) == Iter_next_loop(L, i, Cardinality(DOMAIN L.links), 0)

\* list.iter().collect(): a fresh traversal run to its end with no mutation
\* in between (as Debug::fmt and test_doubly_linked_list_iter do).  A
\* traversal that has yielded more elements than there are links is cut off.
RECURSIVE collect_loop(_, _, _, _)
collect_loop(L, i, acc, fuel) ==
    LET r == Iter_next(L, i)
    IN IF r.ret = NoValue \/ fuel = 0
       THEN acc
       ELSE collect_loop(L, r.it, Append(acc, r.ret), fuel - 1)

collect(L) == collect_loop(L, iter(L), <<>>, Cardinality(DOMAIN L.links))

----------------------------------------------------------------------------
\* graph.rs: the Graph operations on its node list (Graph::nodes)

append(L, node) == push_back(L, node)

prepend(L, node) == push_front(L, node)

pop_last(L) == pop_back(L)

pop_first(L) == pop_front(L)

num_nodes(L) == len(L)

iter_nodes(L) == iter(L)

clear_nodes(L) == clear(L)

----------------------------------------------------------------------------
\* The container and one traversal as a state machine.

Range(s) == {s[k] : k \in DOMAIN s}

NotRelocated == [atCursor |-> FALSE, follower |-> NoValue]

Last(s) == s[Len(s)]

ListInit ==
    /\ list = DoublyLinkedList_new
    /\ it = [live |-> FALSE, current |-> NoLink, root |-> root]
    /\ ret = NoValue
    /\ expRet = NoValue
    /\ lastOp = "new"
    /\ ref = <<>>
    /\ nPush = 0
    /\ nPop = 0
    /\ nIter = 0
    /\ yielded = <<>>
    /\ ended = FALSE
    /\ removed = {}
    /\ insAfter = {}
    /\ insBefore = {}
    /\ frontPushed = {}
    /\ mutated = FALSE
    /\ skips = 0
    /\ diverged = FALSE
    /\ atStart = <<>>
    /\ afterEnd = {}
    /\ relocated = NotRelocated

\* The program is running: no panic has unwound it and no call hangs.
Running == ~list.panic /\ ~diverged

\* The last yielded element is still in the container.
LastYieldedInList == yielded # <<>> /\ Last(yielded) \in Range(ref)

\* A push at the back of the list; op is the list or the Graph operation.
PushedBack(op, L2) ==
    /\ list' = L2
    /\ ref' = Append(ref, nPush + 1)
    /\ nPush' = nPush + 1
    /\ ret' = NoValue
    /\ expRet' = NoValue
    /\ lastOp' = op
    /\ insAfter' = IF it.live /\ ~ended /\ LastYieldedInList
                   THEN insAfter \cup {nPush + 1} ELSE insAfter
    /\ mutated' = (mutated \/ it.live)
    /\ afterEnd' = IF it.live /\ ended THEN afterEnd \cup {nPush + 1} ELSE afterEnd
    /\ relocated' = NotRelocated
    /\ UNCHANGED <<it, nPop, nIter, yielded, ended, removed, insBefore, frontPushed, skips, diverged, atStart>>
    /\ UNCHANGED <<valueVars, metaVars, shapeVars, nameVars, graphVars>>

PushedFront(op, L2) ==
    /\ list' = L2
    /\ ref' = <<nPush + 1>> \o ref
    /\ nPush' = nPush + 1
    /\ ret' = NoValue
    /\ expRet' = NoValue
    /\ lastOp' = op
    /\ insBefore' = IF it.live /\ yielded # <<>>
                    THEN insBefore \cup {nPush + 1} ELSE insBefore
    /\ frontPushed' = frontPushed \cup {nPush + 1}
    /\ mutated' = (mutated \/ it.live)
    /\ afterEnd' = IF it.live /\ ended THEN afterEnd \cup {nPush + 1} ELSE afterEnd
    /\ relocated' = NotRelocated
    /\ UNCHANGED <<it, nPop, nIter, yielded, ended, removed, insAfter, skips, diverged, atStart>>
    /\ UNCHANGED <<valueVars, metaVars, shapeVars, nameVars, graphVars>>

\* A pop; r is what the operation computed, ref2 the reference sequence after it.
Popped(op, r, exp, ref2) ==
    /\ list' = r.list
    /\ ret' = r.ret
    /\ expRet' = exp
    /\ lastOp' = op
    /\ ref' = ref2
    /\ nPop' = IF r.ret # NoValue THEN nPop + 1 ELSE nPop
    /\ removed' = removed \cup (Range(ref) \ Range(ref2))
    /\ mutated' = (mutated \/ (it.live /\ ref2 # ref))
    /\ relocated' = NotRelocated
    /\ UNCHANGED <<it, nPush, nIter, yielded, ended, insAfter, insBefore, frontPushed, skips, diverged, atStart, afterEnd>>
    /\ UNCHANGED <<valueVars, metaVars, shapeVars, nameVars, graphVars>>

RefFront == IF ref = <<>> THEN NoValue ELSE Head(ref)

RefBack == IF ref = <<>> THEN NoValue ELSE Last(ref)

RefPopFront == IF ref = <<>> THEN ref ELSE Tail(ref)

RefPopBack == IF ref = <<>> THEN ref ELSE SubSeq(ref, 1, Len(ref) - 1)

Cleared(op, c) ==
    /\ list' = c.list
    /\ ret' = NoValue
    /\ expRet' = NoValue
    /\ lastOp' = op
    /\ ref' = <<>>
    /\ nPop' = nPop + c.pops
    /\ removed' = removed \cup Range(ref)
    /\ mutated' = (mutated \/ (it.live /\ ref # <<>>))
    /\ relocated' = NotRelocated
    /\ UNCHANGED <<it, nPush, nIter, yielded, ended, insAfter, insBefore, frontPushed, skips, diverged, atStart, afterEnd>>
    /\ UNCHANGED <<valueVars, metaVars, shapeVars, nameVars, graphVars>>

Started(op, i) ==
    /\ it' = i
    /\ nIter' = nIter + 1
    /\ ret' = NoValue
    /\ expRet' = NoValue
    /\ lastOp' = op
    /\ yielded' = <<>>
    /\ ended' = FALSE
    /\ insAfter' = {}
    /\ insBefore' = {}
    /\ mutated' = FALSE
    /\ skips' = 0
    /\ atStart' = ref
    /\ afterEnd' = {}
    /\ relocated' = NotRelocated
    /\ UNCHANGED <<list, ref, nPush, nPop, removed, frontPushed, diverged>>
    /\ UNCHANGED <<valueVars, metaVars, shapeVars, nameVars, graphVars>>

DoPushBack ==
    /\ Running
    /\ nPush < MaxPush
    /\ PushedBack("push_back", push_back(list, nPush + 1))

DoPushFront ==
    /\ Running
    /\ nPush < MaxPush
    /\ PushedFront("push_front", push_front(list, nPush + 1))

DoPopBack ==
    /\ Running
    /\ Popped("pop_back", pop_back(list), RefBack, RefPopBack)

DoPopFront ==
    /\ Running
    /\ Popped("pop_front", pop_front(list), RefFront, RefPopFront)

DoClear ==
    /\ Running
    /\ Cleared("clear", clear(list))

DoIter ==
    /\ Running
    /\ nIter < MaxIter
    /\ Started("iter", iter(list))

\* The Graph operations act on the same list and leave the same record.
DoAppend ==
    /\ Running
    /\ nPush < MaxPush
    /\ PushedBack("push_back", append(list, nPush + 1))

DoPrepend ==
    /\ Running
    /\ nPush < MaxPush
    /\ PushedFront("push_front", prepend(list, nPush + 1))

DoPopLast ==
    /\ Running
    /\ Popped("pop_back", pop_last(list), RefBack, RefPopBack)

DoPopFirst ==
    /\ Running
    /\ Popped("pop_front", pop_first(list), RefFront, RefPopFront)

DoClearNodes ==
    /\ Running
    /\ Cleared("clear", clear_nodes(list))

DoIterNodes ==
    /\ Running
    /\ nIter < MaxIter
    /\ Started("iter", iter_nodes(list))

\* One call of Iter::next on the traversal in flight.  A traversal yields each
\* element at most once, so more than MaxPush yields are cut off.
DoNext ==
    /\ Running
    /\ it.live
    /\ Len(yielded) <= MaxPush
    /\ LET r == Iter_next(list, it)
       IN /\ it' = r.it
          /\ ret' = r.ret
          /\ yielded' = IF r.ret # NoValue THEN Append(yielded, r.ret) ELSE yielded
          /\ ended' = (ended \/ (r.ret = NoValue /\ ~r.diverged))
          /\ skips' = skips + r.skipped
          /\ diverged' = r.diverged
    /\ expRet' = NoValue
    /\ lastOp' = "next"
    /\ relocated' = NotRelocated
    /\ UNCHANGED <<list, ref, nPush, nPop, nIter, removed, insAfter, insBefore, frontPushed, mutated, atStart, afterEnd>>
    /\ UNCHANGED <<valueVars, metaVars, shapeVars, nameVars, graphVars>>

\* An element is taken out at one end and put back at the other:
\* `let v = list.pop_front().unwrap(); list.push_back(v);` and its mirror.
\* The container holds another element, so the new place is a different one.
\* The element gets a new LinkBox; the one it leaves stays erased.
\* Every link but the sentinel comes from a push or from a relocation.
nMove == fresh(list) - 1 - nPush

Relocated(L2, ref2, atCursor, follower) ==
    /\ list' = L2
    /\ ref' = ref2
    /\ ret' = NoValue
    /\ expRet' = NoValue
    /\ lastOp' = "relocate"
    /\ nPop' = nPop + 1
    /\ mutated' = (mutated \/ it.live)
    /\ relocated' = [atCursor |-> it.live /\ ~ended /\ atCursor, follower |-> follower]
    /\ UNCHANGED <<it, nPush, nIter, yielded, ended, removed, insAfter, insBefore,
                   frontPushed, skips, diverged, atStart, afterEnd>>
    /\ UNCHANGED <<valueVars, metaVars, shapeVars, nameVars, graphVars>>

DoMoveFrontToBack ==
    /\ Running
    /\ nMove < MaxMove
    /\ Len(ref) >= 2
    /\ LET p == pop_front(list)
       IN Relocated(push_back(p.list, p.ret), Append(Tail(ref), Head(ref)),
                    it.current = list.links[root].next, ref[2])

DoMoveBackToFront ==
    /\ Running
    /\ nMove < MaxMove
    /\ Len(ref) >= 2
    /\ LET p == pop_back(list)
       IN Relocated(push_front(p.list, p.ret), <<Last(ref)>> \o RefPopBack,
                    it.current = list.links[root].prev, NoValue)

ListNext ==
    \/ DoPushBack
    \/ DoPushFront
    \/ DoPopBack
    \/ DoPopFront
    \/ DoClear
    \/ DoIter
    \/ DoNext
    \/ DoAppend
    \/ DoPrepend
    \/ DoPopLast
    \/ DoPopFirst
    \/ DoClearNodes
    \/ DoIterNodes


----------------------------------------------------------------------------
\* Properties of the node container.

Min(S) == CHOOSE x \in S : \A y \in S : x <= y

Max(S) == CHOOSE x \in S : \A y \in S : x >= y

IsListOp(op) == op \in {"push_back", "push_front", "pop_back", "pop_front", "clear"}

\* C1: the container refines the reference sequence: after every operation
\* a fresh traversal yields the reference sequence front to back, front() and
\* back() are its first and last element, and each push, pop and clear
\* returned what the reference sequence returns.
C1_RefinesSequence ==
    /\ collect(list) = ref
    /\ front(list) = RefFront
    /\ back(list) = RefBack
    /\ IsListOp(lastOp) => ret = expRet

C1_Witness ==
    /\ lastOp = "pop_back"
    /\ ret = 1
    /\ Len(ref) = 2
    /\ frontPushed # {}

\* C2: len() is the number of pushes minus the number of pops that returned
\* an element, and is_empty() holds exactly when len() is 0.
C2_LenCountsPushesMinusPops ==
    /\ len(list) = nPush - nPop
    /\ is_empty(list) <=> len(list) = 0

C2_Witness ==
    /\ lastOp = "pop_back"
    /\ ret = NoValue
    /\ nPush = 2
    /\ nPop = 2

\* C3 as stated: on a non-empty container front() is the oldest surviving
\* entry and back() the newest one.
C3_FrontOldestBackNewest ==
    ~is_empty(list) =>
        /\ front(list) = Min(Range(ref))
        /\ back(list) = Max(Range(ref))

\* C3 amended: front() is the surviving entry most recently added by
\* push_front, or the oldest surviving entry when none added by push_front
\* survives; back() is the surviving entry most recently added by push_back,
\* or the oldest surviving entry when none added by push_back survives.
C3_FrontBackByEnd ==
    LET alive == Range(ref)
        atFront == alive \cap frontPushed
        atBack == alive \ frontPushed
    IN ~is_empty(list) =>
        /\ front(list) = IF atFront # {} THEN Max(atFront) ELSE Min(alive)
        /\ back(list) = IF atBack # {} THEN Max(atBack) ELSE Min(alive)

C3_Witness ==
    /\ Len(ref) = 3
    /\ Cardinality(Range(ref) \cap frontPushed) = 2
    /\ front(list) = 3
    /\ back(list) = 1

\* C4 as stated: once the traversal has reported its end, every element that
\* was pushed at the back while the traversal had not yet reported its end and
\* the element it yielded last was still in the container, and that is still
\* in the container, has been yielded by that traversal.
C4_InsertedAfterIsYielded ==
    ended => \A e \in insAfter : e \in Range(ref) => e \in Range(yielded)

\* C5: an element pushed at the front after the traversal yielded its first
\* element is never yielded by that traversal.
C5_InsertedBeforeNotYielded ==
    \A e \in insBefore : e \notin Range(yielded)

C5_Witness ==
    /\ lastOp = "next"
    /\ ended
    /\ Len(yielded) = 2
    /\ insBefore \cap Range(ref) # {}

\* C6: every step of a traversal yields an element that is in the container
\* at that moment, never one removed before by a pop or clear, and no step
\* panics or hangs on a vacated link.
C6_NeverYieldsRemoved ==
    [][ /\ (Len(yielded') = Len(yielded) + 1 =>
                /\ Last(yielded') \notin removed
                /\ Last(yielded') \in Range(ref))
        /\ ~list'.panic
        /\ ~diverged' ]_vars

C6_Witness ==
    /\ lastOp = "next"
    /\ skips >= 2
    /\ ret # NoValue
    /\ removed # {}

\* C7: a traversal reports its end after finitely many steps, no next() call
\* loops forever, no element is yielded twice, and a traversal with no
\* mutation in between has yielded exactly len() elements when it ends.
C7_TraversalFinite ==
    /\ [](~diverged)
    /\ [](Len(yielded) <= nPush)
    /\ [](ended /\ ~mutated => Len(yielded) = len(list))
    /\ ((it.live /\ ~ended) ~> ended)

C7_Witness ==
    /\ ended
    /\ ~mutated
    /\ Len(yielded) = MaxPush

\* clear() compared with len() calls of pop_front.
RECURSIVE pop_front_times(_, _)
pop_front_times(L, n) ==
    IF n = 0 THEN L ELSE pop_front_times(pop_front(L).list, n - 1)

\* C8: from every reachable state clear() leaves the state that popping the
\* front len() times leaves, in which a further pop_front returns nothing:
\* len() is 0, is_empty() holds, front() and back() are empty, a fresh
\* traversal yields nothing, and a push afterwards works as on a new list.
C8_ClearIsRepeatedPopFront ==
    LET c == clear(list).list
        p == pop_front_times(list, len(list))
        again == push_back(c, MaxPush + 1)
    IN /\ c = p
       /\ pop_front(p).ret = NoValue
       /\ len(c) = 0
       /\ is_empty(c)
       /\ front(c) = NoValue
       /\ back(c) = NoValue
       /\ collect(c) = <<>>
       /\ len(again) = 1
       /\ front(again) = MaxPush + 1
       /\ back(again) = MaxPush + 1
       /\ collect(again) = <<MaxPush + 1>>
       /\ lastOp = "clear" => list = c

C8_Witness ==
    /\ lastOp = "clear"
    /\ nPush = MaxPush
    /\ nPop = MaxPush
    /\ Cardinality(removed) = MaxPush
    /\ it.live

\* C9: on an empty container pop_front, pop_back, front and back return
\* nothing and leave the container as it is, and no operation has panicked.
C9_EmptyReturnsNothing ==
    /\ ~list.panic
    /\ is_empty(list) =>
        /\ pop_front(list) = [list |-> list, ret |-> NoValue]
        /\ pop_back(list) = [list |-> list, ret |-> NoValue]
        /\ front(list) = NoValue
        /\ back(list) = NoValue
        /\ len(list) = 0

C9_Witness ==
    /\ lastOp = "pop_front"
    /\ ret = NoValue
    /\ is_empty(list)
    /\ nPop >= 1
    /\ removed # {}

----------------------------------------------------------------------------
\* value.rs: Value use-def tracking.  V is the table of Values, N the table
\* of nodes; a node identity in a consumer entry or a producer field is a
\* Weak reference, which upgrades while the node is alive.

\* Option::None for a producer.
NoNode == 0

Values == 1 .. NumValues

Value_new(name) ==
    [name |-> name, shape |-> "None", type_ |-> "None",
     producer |-> NoNode, consumers |-> <<>>]

Node_new == [alive |-> TRUE, inputs |-> <<>>, outputs |-> <<>>]

\* Mutant: a Weak reference upgrades whether or not its node still exists.
upgrade_dangling(N, n) == n \in DOMAIN N

\* Weak::upgrade().is_some()
upgrade(N, n) == n \in DOMAIN N /\ N[n].alive

producer(V, N, v) ==
    IF V[v].producer # NoNode /\ upgrade(N, V[v].producer)
    THEN V[v].producer ELSE NoNode

\* Mutant: set_producer also forgets the consumers.
set_producer_clears_consumers(V, v, p) ==
    [V EXCEPT ![v].producer = p, ![v].consumers = <<>>]

set_producer(V, v, p) == [V EXCEPT ![v].producer = p]

\* consumers(): filter_map over the entries, keeping those that upgrade.
RECURSIVE consumers_from(_, _, _)
consumers_from(entries, N, k) ==
    IF k > Len(entries) THEN <<>>
    ELSE IF upgrade(N, entries[k][1])
    THEN <<entries[k]>> \o consumers_from(entries, N, k + 1)
    ELSE consumers_from(entries, N, k + 1)

consumers(V, N, v) == consumers_from(V[v].consumers, N, 1)

\* Mutant: add_consumer skips an entry that is already stored.
add_consumer_dedup(V, v, consumer, input_index) ==
    IF \E k \in DOMAIN V[v].consumers : V[v].consumers[k] = <<consumer, input_index>>
    THEN V
    ELSE [V EXCEPT ![v].consumers = Append(@, <<consumer, input_index>>)]

add_consumer(V, v, consumer, input_index) ==
    [V EXCEPT ![v].consumers = Append(@, <<consumer, input_index>>)]

\* Mutant: remove_consumer removes only the entry at position 0 of the node.
remove_consumer_at_zero(V, v, consumer) ==
    [V EXCEPT ![v].consumers = SelectSeq(@, LAMBDA e : e # <<consumer, 0>>)]

remove_consumer(V, v, consumer) ==
    [V EXCEPT ![v].consumers = SelectSeq(@, LAMBDA e : e[1] # consumer)]

clear_consumers(V, v) == [V EXCEPT ![v].consumers = <<>>]

\* Mutant: num_uses counts every stored entry.
num_uses_counts_all(V, N, v) == Len(V[v].consumers)

\* num_uses(): filter(...).count()
num_uses(V, N, v) ==
    Cardinality({k \in DOMAIN V[v].consumers : upgrade(N, V[v].consumers[k][1])})

\* Mutant: pruning keeps only the entries of destroyed nodes.
prune_dead_consumers_keeps_dead(V, N, v) ==
    [V EXCEPT ![v].consumers = SelectSeq(@, LAMBDA e : ~upgrade(N, e[1]))]

prune_dead_consumers(V, N, v) ==
    [V EXCEPT ![v].consumers = SelectSeq(@, LAMBDA e : upgrade(N, e[1]))]

\* What prune_dead_consumers hands back to its caller, as an Option-like
\* sequence: the function is declared without a return type, so its value is
\* the unit () and no count is returned.
prune_dead_consumers_ret(V, N, v) == <<>>

\* Mutant: the loop rewrites the input slots without registering the node
\* on the replacement.
RECURSIVE replace_loop_no_register(_, _, _, _, _)
replace_loop_no_register(V, N, live, replacement, k) ==
    IF k > Len(live) THEN [values |-> V, nodes |-> N]
    ELSE LET node == live[k][1]
             input_idx == live[k][2]
         IN IF input_idx < Len(N[node].inputs)
            THEN replace_loop_no_register(V,
                              [N EXCEPT ![node].inputs[input_idx + 1] = replacement],
                              live, replacement, k + 1)
            ELSE replace_loop_no_register(V, N, live, replacement, k + 1)

\* Mutant: the loop without the test of the position against inputs.len().
RECURSIVE replace_loop_unguarded(_, _, _, _, _)
replace_loop_unguarded(V, N, live, replacement, k) ==
    IF k > Len(live) THEN [values |-> V, nodes |-> N]
    ELSE LET node == live[k][1]
             input_idx == live[k][2]
         IN replace_loop_unguarded(add_consumer(V, replacement, node, input_idx),
                [N EXCEPT ![node].inputs =
                     [j \in 1 .. Max({Len(@), input_idx + 1}) |->
                          IF j = input_idx + 1 THEN replacement
                          ELSE IF j <= Len(@) THEN @[j] ELSE replacement]],
                live, replacement, k + 1)

\* replace_all_uses_with: the loop over the live consumers collected first,
\* from entry k on; then clear_consumers.
RECURSIVE replace_loop(_, _, _, _, _)
replace_loop(V, N, live, replacement, k) ==
    IF k > Len(live) THEN [values |-> V, nodes |-> N]
    ELSE LET node == live[k][1]
             input_idx == live[k][2]
         IN IF input_idx < Len(N[node].inputs)
            THEN replace_loop(add_consumer(V, replacement, node, input_idx),
                              [N EXCEPT ![node].inputs[input_idx + 1] = replacement],
                              live, replacement, k + 1)
            ELSE replace_loop(V, N, live, replacement, k + 1)

\* Mutant: the replacement also takes over the producer of the replaced Value.
replace_all_uses_with_moves_producer(V, N, v, replacement) ==
    LET r == replace_loop(V, N, consumers(V, N, v), replacement, 1)
    IN [values |-> set_producer(clear_consumers(r.values, v), replacement, V[v].producer),
        nodes |-> r.nodes]

replace_all_uses_with(V, N, v, replacement) ==
    LET r == replace_loop(V, N, consumers(V, N, v), replacement, 1)
    IN [values |-> clear_consumers(r.values, v), nodes |-> r.nodes]

\* node.rs
\* Mutant: the position is read after the push.
node_add_input_index_after_push(V, N, node, value) ==
    LET input_index == Len(N[node].inputs) + 1
    IN [values |-> add_consumer(V, value, node, input_index),
        nodes  |-> [N EXCEPT ![node].inputs = Append(@, value)]]

node_add_input(V, N, node, value) ==
    LET input_index == Len(N[node].inputs)
    IN [values |-> add_consumer(V, value, node, input_index),
        nodes  |-> [N EXCEPT ![node].inputs = Append(@, value)]]

\* Mutant: the output is appended without the producer being set.
node_add_output_without_producer(V, N, node, value) ==
    [values |-> V,
     nodes  |-> [N EXCEPT ![node].outputs = Append(@, value)]]

node_add_output(V, N, node, value) ==
    [values |-> set_producer(V, value, node),
     nodes  |-> [N EXCEPT ![node].outputs = Append(@, value)]]

----------------------------------------------------------------------------
\* Use-def tracking as a state machine.

ValueInit ==
    /\ values = [v \in Values |-> Value_new(v)]
    /\ nodes = <<>>
    /\ discipline = "paired"

Made == DOMAIN nodes

Alive == {n \in Made : nodes[n].alive}

\* A consumer list was changed by a direct call of one of its mutators.
Direct == IF discipline = "self" THEN "self" ELSE "raw"

\* Rc::new(RefCell::new(Node::new(..)))
DoNewNode ==
    /\ Len(nodes) < MaxNodes
    /\ nodes' = Append(nodes, Node_new)
    /\ UNCHANGED <<values, discipline>>
    /\ UNCHANGED <<listVars, metaVars, shapeVars, nameVars, graphVars>>

\* The last Rc of a node is dropped: the node and its input and output lists
\* are destroyed; Weak references to it stay where they are stored.
DoDropNode ==
    \E n \in Alive :
        /\ nodes' = [nodes EXCEPT ![n] = [alive |-> FALSE, inputs |-> <<>>, outputs |-> <<>>]]
        /\ UNCHANGED <<values, discipline>>
        /\ UNCHANGED <<listVars, metaVars, shapeVars, nameVars, graphVars>>

DoAddConsumer ==
    \E v \in Values, n \in Made, i \in 0 .. MaxInputs - 1 :
        /\ Len(values[v].consumers) < MaxConsumers
        /\ values' = add_consumer(values, v, n, i)
        /\ discipline' = Direct
        /\ UNCHANGED nodes
        /\ UNCHANGED <<listVars, metaVars, shapeVars, nameVars, graphVars>>

DoRemoveConsumer ==
    \E v \in Values, n \in Made :
        /\ values' = remove_consumer(values, v, n)
        /\ discipline' = Direct
        /\ UNCHANGED nodes
        /\ UNCHANGED <<listVars, metaVars, shapeVars, nameVars, graphVars>>

DoClearConsumers ==
    \E v \in Values :
        /\ values' = clear_consumers(values, v)
        /\ discipline' = Direct
        /\ UNCHANGED nodes
        /\ UNCHANGED <<listVars, metaVars, shapeVars, nameVars, graphVars>>

DoPruneDeadConsumers ==
    \E v \in Values :
        /\ values' = prune_dead_consumers(values, nodes, v)
        /\ UNCHANGED <<nodes, discipline>>
        /\ UNCHANGED <<listVars, metaVars, shapeVars, nameVars, graphVars>>

DoReplaceAllUsesWith ==
    \E v \in Values, r \in Values :
        /\ v = r \/ Len(values[r].consumers) + num_uses(values, nodes, v) <= MaxConsumers
        /\ LET res == replace_all_uses_with(values, nodes, v, r)
           IN /\ values' = res.values
              /\ nodes' = res.nodes
        /\ discipline' = IF v = r THEN "self" ELSE discipline
        /\ UNCHANGED <<listVars, metaVars, shapeVars, nameVars, graphVars>>

DoNodeAddInput ==
    \E n \in Alive, v \in Values :
        /\ Len(nodes[n].inputs) < MaxInputs
        /\ Len(values[v].consumers) < MaxConsumers
        /\ LET res == node_add_input(values, nodes, n, v)
           IN /\ values' = res.values
              /\ nodes' = res.nodes
        /\ UNCHANGED discipline
        /\ UNCHANGED <<listVars, metaVars, shapeVars, nameVars, graphVars>>

DoSetProducer ==
    \E v \in Values, x \in {NoNode} \cup Made :
        /\ values' = set_producer(values, v, x)
        /\ UNCHANGED <<nodes, discipline>>
        /\ UNCHANGED <<listVars, metaVars, shapeVars, nameVars, graphVars>>

DoNodeAddOutput ==
    \E n \in Alive, v \in Values :
        /\ Len(nodes[n].outputs) < MaxOutputs
        /\ LET res == node_add_output(values, nodes, n, v)
           IN /\ values' = res.values
              /\ nodes' = res.nodes
        /\ UNCHANGED discipline
        /\ UNCHANGED <<listVars, metaVars, shapeVars, nameVars, graphVars>>

ValueNext ==
    \/ DoNewNode
    \/ DoDropNode
    \/ DoAddConsumer
    \/ DoRemoveConsumer
    \/ DoClearConsumers
    \/ DoPruneDeadConsumers
    \/ DoReplaceAllUsesWith
    \/ DoNodeAddInput

----------------------------------------------------------------------------
\* metadata.rs: MetadataStore.  A store is [data, invalid_keys]; data is a
\* function from the keys present to the boxed values, a boxed value is
\* [ty, val] (Box<dyn Any>: the type it was inserted with and its payload).
\* An Option is a sequence of length at most one.

Keys == 1 .. NumKeys

Types == {"i32", "i64"}

Boxed == [ty : Types, val : 1 .. NumPayloads]

MetadataStore_new == [data |-> <<>>, invalid_keys |-> {}]

\* Mutant: insert leaves the key marked invalid.
insert_keeps_invalid(M, key, value) ==
    [M EXCEPT !.data = [k \in DOMAIN M.data \cup {key} |->
                            IF k = key THEN value ELSE M.data[k]]]

insert(M, key, value) ==
    [data |-> [k \in DOMAIN M.data \cup {key} |->
                   IF k = key THEN value ELSE M.data[k]],
     invalid_keys |-> M.invalid_keys \ {key}]

\* Mutant: get hands out the payload whatever type is asked for.
get_any_type(M, key, T) ==
    IF key \notin DOMAIN M.data THEN <<>> ELSE <<M.data[key].val>>

\* get::<T>: None if the key doesn't exist or the type doesn't match.
get(M, key, T) ==
    IF key \notin DOMAIN M.data THEN <<>>
    ELSE IF M.data[key].ty = T THEN <<M.data[key].val>> ELSE <<>>

\* Mutant: remove leaves the key's invalid flag set.
remove_keeps_flag(M, key, T) ==
    IF key \notin DOMAIN M.data THEN [store |-> M, ret |-> <<>>]
    ELSE [store |-> [data |-> [k \in DOMAIN M.data \ {key} |-> M.data[k]],
                     invalid_keys |-> M.invalid_keys],
          ret |-> IF M.data[key].ty = T THEN <<M.data[key].val>> ELSE <<>>]

\* remove::<T>: the entry is removed before the downcast.
remove(M, key, T) ==
    IF key \notin DOMAIN M.data THEN [store |-> M, ret |-> <<>>]
    ELSE [store |-> [data |-> [k \in DOMAIN M.data \ {key} |-> M.data[k]],
                     invalid_keys |-> M.invalid_keys \ {key}],
          ret |-> IF M.data[key].ty = T THEN <<M.data[key].val>> ELSE <<>>]

\* get_mut::<T>: the same lookup through &mut self; the call itself writes
\* nothing.
get_mut(M, key, T) ==
    [store |-> M,
     ret |-> IF key \notin DOMAIN M.data THEN <<>>
             ELSE IF M.data[key].ty = T THEN <<M.data[key].val>> ELSE <<>>]

contains_key(M, key) == key \in DOMAIN M.data

invalidate(M, key) == [M EXCEPT !.invalid_keys = @ \cup {key}]

\* Mutant: is_valid looks at the invalid flag alone.
is_valid_unless_flagged(M, key) == key \notin M.invalid_keys

is_valid(M, key) == key \in DOMAIN M.data /\ key \notin M.invalid_keys

MetadataStore_len(M) == Cardinality(DOMAIN M.data)

MetadataStore_is_empty(M) == DOMAIN M.data = {}

MetadataStore_clear(M) == [data |-> <<>>, invalid_keys |-> {}]

\* The store as a state machine.
Store == [data |-> data, invalid_keys |-> invalid_keys]

MetaInit ==
    /\ data = MetadataStore_new.data
    /\ invalid_keys = MetadataStore_new.invalid_keys
    /\ stale = {}

Stored(M, invalidated) ==
    /\ data' = M.data
    /\ invalid_keys' = M.invalid_keys
    /\ stale' = invalidated
    /\ UNCHANGED <<listVars, valueVars, shapeVars, nameVars, graphVars>>

DoInsert ==
    \E k \in Keys, value \in Boxed :
        /\ TRUE
        /\ Stored(insert(Store, k, value), stale \ {k})

DoInvalidate ==
    \E k \in Keys :
        /\ TRUE
        /\ Stored(invalidate(Store, k), stale \cup {k})

DoRemove ==
    \E k \in Keys, T \in Types :
        /\ TRUE
        /\ Stored(remove(Store, k, T).store, stale)

DoMetaClear ==
    /\ TRUE
    /\ Stored(MetadataStore_clear(Store), stale)

MetaNext ==
    \/ DoInsert
    \/ DoInvalidate
    \/ DoRemove
    \/ DoMetaClear

----------------------------------------------------------------------------
\* shape.rs: SymbolicDim and Shape.  A dimension is [kind, v]: Int(v) with v
\* an i64, or Symbol with v = 0 for Symbol(None) and v >= 1 for a named
\* symbol.  i64 and usize are modelled IntBits wide.  An Option is a sequence
\* of length at most one.

I64 == -(2 ^ (IntBits - 1)) .. 2 ^ (IntBits - 1) - 1

UsizeMax == 2 ^ IntBits - 1

SymbolicDim ==
    [kind : {"Int"}, v : I64] \cup [kind : {"Symbol"}, v : 0 .. NumSymbols]

from_int(value) == [kind |-> "Int", v |-> value]

from_symbol(name) == [kind |-> "Symbol", v |-> name]

is_int(d) == d.kind = "Int"

is_symbol(d) == d.kind = "Symbol"

as_int(d) == IF d.kind = "Int" THEN <<d.v>> ELSE <<>>

\* Option<String> of a denotation.
Denotations == {"None", "DATA_BATCH"}

Shape_new(dims) ==
    [dims |-> dims, denotations |-> [i \in 1 .. Len(dims) |-> "None"], frozen |-> FALSE]

scalar == Shape_new(<<>>)

rank(S) == Len(S.dims)

is_scalar(S) == S.dims = <<>>

\* `v as usize`: the two's complement bits of v read as unsigned.
as_usize(v) == v % (2 ^ IntBits)

saturating_mul(a, b) == IF a * b > UsizeMax THEN UsizeMax ELSE a * b

\* Mutant: the loop of size() steps over a symbolic dimension.
RECURSIVE size_loop_skips_symbols(_, _, _)
size_loop_skips_symbols(dims, k, total) ==
    IF k > Len(dims) THEN <<total>>
    ELSE IF dims[k].kind = "Int"
    THEN size_loop_skips_symbols(dims, k + 1, saturating_mul(total, as_usize(dims[k].v)))
    ELSE size_loop_skips_symbols(dims, k + 1, total)

\* The loop of size(), from dimension k on.
RECURSIVE size_loop(_, _, _)
size_loop(dims, k, total) ==
    IF k > Len(dims) THEN <<total>>
    ELSE IF dims[k].kind = "Int"
    THEN size_loop(dims, k + 1, saturating_mul(total, as_usize(dims[k].v)))
    ELSE <<>>

size(S) == IF is_scalar(S) THEN <<1>> ELSE size_loop(S.dims, 1, 1)

freeze(S) == [S EXCEPT !.frozen = TRUE]

is_frozen(S) == S.frozen

\* Mutant: set_dim does not look at the frozen flag.
set_dim_ignores_frozen(S, index, dim) ==
    IF index >= Len(S.dims) THEN [shape |-> S, panic |-> TRUE]
    ELSE [shape |-> [S EXCEPT !.dims[index + 1] = dim], panic |-> FALSE]

\* set_dim: the assert on the frozen flag, then the bounds-checked indexing.
set_dim(S, index, dim) ==
    IF S.frozen THEN [shape |-> S, panic |-> TRUE]
    ELSE IF index >= Len(S.dims) THEN [shape |-> S, panic |-> TRUE]
    ELSE [shape |-> [S EXCEPT !.dims[index + 1] = dim], panic |-> FALSE]

get_denotation(S, index) ==
    IF index >= Len(S.denotations) THEN <<>>
    ELSE IF S.denotations[index + 1] = "None" THEN <<>>
    ELSE <<S.denotations[index + 1]>>

\* Mutant: set_denotation past the end does nothing.
set_denotation_ignores_range(S, index, denotation) ==
    IF S.frozen THEN [shape |-> S, panic |-> TRUE]
    ELSE IF index >= Len(S.denotations) THEN [shape |-> S, panic |-> FALSE]
    ELSE [shape |-> [S EXCEPT !.denotations[index + 1] = denotation], panic |-> FALSE]

set_denotation(S, index, denotation) ==
    IF S.frozen THEN [shape |-> S, panic |-> TRUE]
    ELSE IF index >= Len(S.denotations) THEN [shape |-> S, panic |-> TRUE]
    ELSE [shape |-> [S EXCEPT !.denotations[index + 1] = denotation], panic |-> FALSE]

\* to_vec: collect() of the as_int() of every dimension into an Option<Vec>.
to_vec(S) ==
    IF \E k \in DOMAIN S.dims : as_int(S.dims[k]) = <<>>
    THEN <<>>
    ELSE <<[k \in DOMAIN S.dims |-> S.dims[k].v]>>

\* The Shape as a state machine.
DimLists == UNION {[1 .. r -> SymbolicDim] : r \in 0 .. MaxRank}

ShapeInit ==
    /\ shape = scalar
    /\ shapePanic = FALSE
    /\ frozenAs = <<>>

\* Shape::new: another Shape takes the place of the one observed.
DoShapeNew ==
    \E dims \in DimLists :
        /\ shape' = Shape_new(dims)
        /\ shapePanic' = FALSE
        /\ frozenAs' = <<>>
        /\ UNCHANGED <<listVars, valueVars, metaVars, nameVars, graphVars>>

DoFreeze ==
    /\ shape' = freeze(shape)
    /\ shapePanic' = FALSE
    /\ frozenAs' = IF frozenAs = <<>> THEN <<freeze(shape)>> ELSE frozenAs
    /\ UNCHANGED <<listVars, valueVars, metaVars, nameVars, graphVars>>

DoSetDim ==
    \E index \in 0 .. MaxRank, dim \in SymbolicDim :
        /\ shape' = set_dim(shape, index, dim).shape
        /\ shapePanic' = set_dim(shape, index, dim).panic
        /\ UNCHANGED frozenAs
        /\ UNCHANGED <<listVars, valueVars, metaVars, nameVars, graphVars>>

DoSetDenotation ==
    \E index \in 0 .. MaxRank, denotation \in Denotations :
        /\ shape' = set_denotation(shape, index, denotation).shape
        /\ shapePanic' = set_denotation(shape, index, denotation).panic
        /\ UNCHANGED frozenAs
        /\ UNCHANGED <<listVars, valueVars, metaVars, nameVars, graphVars>>

ShapeNext ==
    \/ DoShapeNew
    \/ DoFreeze
    \/ DoSetDim
    \/ DoSetDenotation

----------------------------------------------------------------------------
\* name_authority.rs: NameAuthority.  Names are strings; an Option<&str> is a
\* sequence of length at most one.

NameAuthority_new ==
    [value_counter |-> 0, node_counter |-> 0, value_names |-> {}, node_names |-> {}]

\* Mutant: the generated value name is returned without the look-up.
RECURSIVE value_name_loop_unchecked(_)
value_name_loop_unchecked(A) ==
    LET name == "val_" \o ToString(A.value_counter)
    IN [authority |-> [A EXCEPT !.value_counter = @ + 1, !.value_names = @ \cup {name}],
        ret |-> name]

\* The loop of unique_value_name.
RECURSIVE value_name_loop(_)
value_name_loop(A) ==
    LET name == "val_" \o ToString(A.value_counter)
        A1 == [A EXCEPT !.value_counter = @ + 1]
    IN IF name \notin A1.value_names
       THEN [authority |-> [A1 EXCEPT !.value_names = @ \cup {name}], ret |-> name]
       ELSE value_name_loop(A1)

unique_value_name(A, preferred_name) ==
    IF preferred_name # <<>> /\ preferred_name[1] \notin A.value_names
    THEN [authority |-> [A EXCEPT !.value_names = @ \cup {preferred_name[1]}],
          ret |-> preferred_name[1]]
    ELSE value_name_loop(A)

\* Mutant: the generated node name is returned without the look-up.
RECURSIVE node_name_loop_unchecked(_, _)
node_name_loop_unchecked(A, op_type) ==
    LET name == "node_" \o op_type \o "_" \o ToString(A.node_counter)
    IN [authority |-> [A EXCEPT !.node_counter = @ + 1, !.node_names = @ \cup {name}],
        ret |-> name]

\* The loop of unique_node_name.
RECURSIVE node_name_loop(_, _)
node_name_loop(A, op_type) ==
    LET name == "node_" \o op_type \o "_" \o ToString(A.node_counter)
        A1 == [A EXCEPT !.node_counter = @ + 1]
    IN IF name \notin A1.node_names
       THEN [authority |-> [A1 EXCEPT !.node_names = @ \cup {name}], ret |-> name]
       ELSE node_name_loop(A1, op_type)

unique_node_name(A, op_type, preferred_name) ==
    IF preferred_name # <<>> /\ preferred_name[1] \notin A.node_names
    THEN [authority |-> [A EXCEPT !.node_names = @ \cup {preferred_name[1]}],
          ret |-> preferred_name[1]]
    ELSE node_name_loop(A, op_type)

\* HashSet::insert returns whether the name was new.
register_value_name(A, name) ==
    [authority |-> [A EXCEPT !.value_names = @ \cup {name}],
     ret |-> name \notin A.value_names]

register_node_name(A, name) ==
    [authority |-> [A EXCEPT !.node_names = @ \cup {name}],
     ret |-> name \notin A.node_names]

has_value_name(A, name) == name \in A.value_names

has_node_name(A, name) == name \in A.node_names

value_name_count(A) == Cardinality(A.value_names)

node_name_count(A) == Cardinality(A.node_names)

NameAuthority_clear(A) == NameAuthority_new

\* The authority as a state machine.  The names callers bring along include
\* names of the generated formats.
ValueNamePool == {"x", "val_0", "val_1"}

NodeNamePool == {"x", "node_Add_0", "node_Mul_1"}

OpTypes == {"Add", "Mul"}

NameInit ==
    /\ authority = NameAuthority_new
    /\ issued = <<>>
    /\ seenValues = {}
    /\ seenNodes = {}
    /\ collided = FALSE

DoUniqueValueName ==
    \E preferred_name \in {<<>>} \cup {<<n>> : n \in ValueNamePool} :
        /\ authority.value_counter < MaxCounter
        /\ LET r == unique_value_name(authority, preferred_name)
           IN /\ authority' = r.authority
              /\ issued' = <<r.ret>>
              /\ seenValues' = seenValues \cup {r.ret}
              /\ collided' = (collided \/ r.ret \in seenValues)
        /\ UNCHANGED seenNodes
        /\ UNCHANGED <<listVars, valueVars, metaVars, shapeVars, graphVars>>

DoUniqueNodeName ==
    \E op_type \in OpTypes, preferred_name \in {<<>>} \cup {<<n>> : n \in NodeNamePool} :
        /\ authority.node_counter < MaxCounter
        /\ LET r == unique_node_name(authority, op_type, preferred_name)
           IN /\ authority' = r.authority
              /\ issued' = <<r.ret>>
              /\ seenNodes' = seenNodes \cup {r.ret}
              /\ collided' = (collided \/ r.ret \in seenNodes)
        /\ UNCHANGED seenValues
        /\ UNCHANGED <<listVars, valueVars, metaVars, shapeVars, graphVars>>

DoRegisterValueName ==
    \E name \in ValueNamePool :
        /\ authority' = register_value_name(authority, name).authority
        /\ issued' = <<>>
        /\ seenValues' = seenValues \cup {name}
        /\ UNCHANGED <<seenNodes, collided>>
        /\ UNCHANGED <<listVars, valueVars, metaVars, shapeVars, graphVars>>

DoRegisterNodeName ==
    \E name \in NodeNamePool :
        /\ authority' = register_node_name(authority, name).authority
        /\ issued' = <<>>
        /\ seenNodes' = seenNodes \cup {name}
        /\ UNCHANGED <<seenValues, collided>>
        /\ UNCHANGED <<listVars, valueVars, metaVars, shapeVars, graphVars>>

\* clear(): the names seen before it are forgotten.
DoNameClear ==
    /\ authority' = NameAuthority_clear(authority)
    /\ issued' = <<>>
    /\ seenValues' = {}
    /\ seenNodes' = {}
    /\ UNCHANGED collided
    /\ UNCHANGED <<listVars, valueVars, metaVars, shapeVars, graphVars>>

NameNext ==
    \/ DoUniqueValueName
    \/ DoUniqueNodeName
    \/ DoRegisterValueName
    \/ DoRegisterNodeName
    \/ DoNameClear

----------------------------------------------------------------------------
\* graph.rs: the initializers of a Graph.  The HashMap is the set of its
\* entries <<key, Value>>; names are numbered, a Value is constructed with
\* its own number as name.

Names == 1 .. NumNames

\* Mutant: the entry is added and an entry with the same key is kept.
add_initializer_keeps_old(I, V, value) ==
    LET name == V[value].name
    IN [initializers |-> I \cup {<<name, value>>}, values |-> V]

\* add_initializer: the key is the name read from the Value; HashMap::insert
\* puts the Value in the place of whatever the key held.
add_initializer(I, V, value) ==
    LET name == V[value].name
    IN [initializers |-> {e \in I : e[1] # name} \cup {<<name, value>>}, values |-> V]

\* get_initializer: Some(value) as <<value>>, None as <<>>.
get_initializer(I, name) ==
    IF \E e \in I : e[1] = name
    THEN <<(CHOOSE e \in I : e[1] = name)[2]>>
    ELSE <<>>

remove_initializer(I, name) ==
    [initializers |-> {e \in I : e[1] # name}, ret |-> get_initializer(I, name)]

GraphInit ==
    /\ initializers = {}
    /\ namesWhenAdded = [v \in Values |-> {}]

DoAddInitializer ==
    \E v \in Values :
        /\ LET r == add_initializer(initializers, values, v)
           IN /\ initializers' = r.initializers
              /\ values' = r.values
        /\ namesWhenAdded' = [namesWhenAdded EXCEPT ![v] = @ \cup {values[v].name}]
        /\ UNCHANGED <<nodes, discipline>>
        /\ UNCHANGED <<listVars, metaVars, shapeVars, nameVars>>

DoRemoveInitializer ==
    \E name \in Names :
        /\ initializers' = remove_initializer(initializers, name).initializers
        /\ UNCHANGED namesWhenAdded
        /\ UNCHANGED <<listVars, valueVars, metaVars, shapeVars, nameVars>>

\* value.borrow_mut().name = name: the field is public.
DoRename ==
    \E v \in Values, name \in Names :
        /\ values' = [values EXCEPT ![v].name = name]
        /\ UNCHANGED <<nodes, discipline>>
        /\ UNCHANGED <<listVars, metaVars, shapeVars, nameVars, graphVars>>

InitializerNext ==
    \/ DoNewNode
    \/ DoNodeAddInput
    \/ DoNodeAddOutput
    \/ DoRename
    \/ DoAddInitializer
    \/ DoRemoveInitializer

----------------------------------------------------------------------------
\* Specifications: one per component, the other component left as constructed.

Init == ListInit /\ ValueInit /\ MetaInit /\ ShapeInit /\ NameInit /\ GraphInit

ListSpec == Init /\ [][ListNext]_vars

\* Iter::next is called again until it reports the end.
\* The list operations together with the relocation of an element.
MoveNext ==
    \/ DoPushBack
    \/ DoPushFront
    \/ DoPopBack
    \/ DoPopFront
    \/ DoIter
    \/ DoNext
    \/ DoMoveFrontToBack
    \/ DoMoveBackToFront

MoveSpec == Init /\ [][MoveNext]_vars

ListFairSpec == ListSpec /\ WF_vars(DoNext)

ValueSpec == Init /\ [][ValueNext]_vars

\* Use-def tracking with the producer side: the Values' producers and the
\* nodes' output lists as well as the consumer side, the consumer lists
\* changed through the node_add_input helper rather than by add_consumer.
ProducerNext ==
    \/ DoNewNode
    \/ DoDropNode
    \/ DoNodeAddInput
    \/ DoNodeAddOutput
    \/ DoSetProducer
    \/ DoReplaceAllUsesWith
    \/ DoRemoveConsumer
    \/ DoClearConsumers
    \/ DoPruneDeadConsumers

ProducerSpec == Init /\ [][ProducerNext]_vars

\* Input lists changed only through node_add_input, output lists only
\* through node_add_output.
OutputNext ==
    \/ DoNewNode
    \/ DoDropNode
    \/ DoNodeAddInput
    \/ DoNodeAddOutput

OutputSpec == Init /\ [][OutputNext]_vars

InitializerSpec == Init /\ [][InitializerNext]_vars

MetaSpec == Init /\ [][MetaNext]_vars

ShapeSpec == Init /\ [][ShapeNext]_vars

NameSpec == Init /\ [][NameNext]_vars

----------------------------------------------------------------------------
\* Properties of use-def tracking.

\* C10: in every reachable state num_uses() of every Value is the number of
\* its stored consumer entries whose node is alive, which is the length of
\* consumers().
C10_NumUsesCountsLiveConsumers ==
    \A v \in Values :
        /\ num_uses(values, nodes, v) = Len(consumers(values, nodes, v))
        /\ num_uses(values, nodes, v) =
               Len(SelectSeq(values[v].consumers, LAMBDA e : e[1] \in Alive))

C10_Witness ==
    \E v \in Values :
        /\ Alive # Made
        /\ Len(values[v].consumers) = 2
        /\ num_uses(values, nodes, v) = 1
        /\ Len(consumers(values, nodes, v)) = 1

\* The stored entries of Value v in table V that do not name node n.
EntriesOfOthers(V, v, n) == SelectSeq(V[v].consumers, LAMBDA e : e[1] # n)

\* The number of stored entries of Value v that name node n, if n is alive.
LiveEntriesOf(V, v, n) ==
    IF n \in Alive
    THEN Cardinality({k \in DOMAIN V[v].consumers : V[v].consumers[k][1] = n})
    ELSE 0

\* C11: in every reachable state, for every Value v, live node n and
\* position i, add_consumer(n, i) makes num_uses() one larger and consumers()
\* contain (n, i); a second add_consumer(n, i) makes num_uses() one larger
\* again; the entries of other nodes and the other Values stay as they were.
C11_AddConsumerAddsOneUse ==
    \A v \in Values, n \in Alive, i \in 0 .. MaxInputs - 1 :
        LET V1 == add_consumer(values, v, n, i)
            V2 == add_consumer(V1, v, n, i)
        IN /\ num_uses(V1, nodes, v) = num_uses(values, nodes, v) + 1
           /\ <<n, i>> \in Range(consumers(V1, nodes, v))
           /\ num_uses(V2, nodes, v) = num_uses(values, nodes, v) + 2
           /\ Len(consumers(V2, nodes, v)) = Len(consumers(values, nodes, v)) + 2
           /\ EntriesOfOthers(V1, v, n) = EntriesOfOthers(values, v, n)
           /\ EntriesOfOthers(V2, v, n) = EntriesOfOthers(values, v, n)
           /\ \A w \in Values \ {v} : V1[w] = values[w] /\ V2[w] = values[w]

\* The same (n, i) was registered twice on one Value and counts twice.
C11_Witness ==
    \E v \in Values, n \in Alive, i \in 0 .. MaxInputs - 1 :
        /\ values[v].consumers = << <<n, i>>, <<n, i>> >>
        /\ num_uses(values, nodes, v) = 2
        /\ discipline = "raw"

\* C18: in every reachable state, for every Value v and node n (alive or
\* destroyed), remove_consumer(n) leaves no stored entry of n at any
\* position, keeps the entries of other nodes in their order, leaves
\* consumers() without a pair of n and makes num_uses() smaller by the number
\* of entries a live n had.
C18_RemoveConsumerRemovesEveryEntryOfNode ==
    \A v \in Values, n \in Made :
        LET V1 == remove_consumer(values, v, n)
        IN /\ \A k \in DOMAIN V1[v].consumers : V1[v].consumers[k][1] # n
           /\ V1[v].consumers = EntriesOfOthers(values, v, n)
           /\ \A e \in Range(consumers(V1, nodes, v)) : e[1] # n
           /\ num_uses(V1, nodes, v) =
                  num_uses(values, nodes, v) - LiveEntriesOf(values, v, n)
           /\ \A w \in Values \ {v} : V1[w] = values[w]

\* One Value holds a live node at two positions, another holds it before an
\* entry of a second node: removing the node empties the first list and
\* leaves the second node's entry in the second.
C18_Witness ==
    \E v \in Values, w \in Values, n \in Alive, m \in Made :
        /\ m # n
        /\ values[v].consumers = << <<n, 0>>, <<n, 1>> >>
        /\ values[w].consumers = << <<n, 1>>, <<m, 0>> >>
        /\ remove_consumer(values, v, n)[v].consumers = <<>>
        /\ remove_consumer(values, w, n)[w].consumers = << <<m, 0>> >>
        /\ num_uses(remove_consumer(values, v, n), nodes, v) = 0

\* C19: in every reachable state, for every Value that stores an entry of a
\* destroyed node, prune_dead_consumers() removes exactly the stored entries
\* whose node is destroyed, keeps the live entries in their order, and
\* returns the number of entries it removed.
C19_PruneRemovesDeadAndReturnsCount ==
    \A v \in Values :
        LET V1 == prune_dead_consumers(values, nodes, v)
            removedCount == Len(values[v].consumers) - Len(V1[v].consumers)
        IN (\E e \in Range(values[v].consumers) : e[1] \notin Alive) =>
           /\ V1[v].consumers =
                  SelectSeq(values[v].consumers, LAMBDA e : e[1] \in Alive)
           /\ removedCount =
                  Cardinality({k \in DOMAIN values[v].consumers :
                                   values[v].consumers[k][1] \notin Alive})
           /\ removedCount >= 1
           /\ prune_dead_consumers_ret(values, nodes, v) = <<removedCount>>

\* Input slot e[2] of node e[1] exists in node table N.
SlotExists(N, e) == e[2] < Len(N[e[1]].inputs)

\* Input slot e[2] of node e[1] exists in node table N and references Value o.
SlotReferences(N, e, o) == SlotExists(N, e) /\ N[e[1]].inputs[e[2] + 1] = o

\* C13 as stated: in every reachable state, for distinct Values v and o,
\* v.replace_all_uses_with(o) makes input slot i of n reference o and
\* registers (n, i) on o for every live consumer entry (n, i) of v; afterwards
\* v.num_uses() is 0 and o.num_uses() is o's previous num_uses() plus v's.
C13_ReplaceMovesEveryLiveUse ==
    \A v \in Values : \A o \in Values \ {v} :
        LET live == consumers(values, nodes, v)
            r == replace_all_uses_with(values, nodes, v, o)
        IN /\ \A e \in Range(live) :
                  /\ SlotReferences(r.nodes, e, o)
                  /\ e \in Range(consumers(r.values, r.nodes, o))
           /\ num_uses(r.values, r.nodes, v) = 0
           /\ num_uses(r.values, r.nodes, o) =
                  num_uses(values, nodes, o) + num_uses(values, nodes, v)

\* C13: in every reachable state, for distinct Values v and o,
\* v.replace_all_uses_with(o) makes input slot i of n reference o and
\* registers (n, i) on o, after the entries o had and in v's order, for every
\* live consumer entry (n, i) of v whose position i is inside n's input list;
\* a live entry whose position is outside it is dropped without being
\* registered and no input list changes its length; afterwards v.num_uses() is 0 and o.num_uses() is o's previous
\* num_uses() plus the number of v's live entries with a position inside.
C13_ReplaceMovesEveryLiveUseInRange ==
    \A v \in Values : \A o \in Values \ {v} :
        LET live == consumers(values, nodes, v)
            moved == SelectSeq(live, LAMBDA e : SlotExists(nodes, e))
            r == replace_all_uses_with(values, nodes, v, o)
        IN /\ \A e \in Range(moved) : SlotReferences(r.nodes, e, o)
           /\ consumers(r.values, r.nodes, o) = consumers(values, nodes, o) \o moved
           /\ \A n \in Made : Len(r.nodes[n].inputs) = Len(nodes[n].inputs)
           /\ r.values[v].consumers = <<>>
           /\ num_uses(r.values, r.nodes, v) = 0
           /\ num_uses(r.values, r.nodes, o) = num_uses(values, nodes, o) + Len(moved)

\* A Value is used by a live node at its input 0 and holds a live entry of
\* another node at a position that node does not have: the replacement gets
\* one use, the first node's input 0 references it.
C13_Witness ==
    \E v \in Values, o \in Values, n \in Alive, m \in Alive :
        /\ v # o /\ n # m
        /\ values[v].consumers = << <<n, 0>>, <<m, 1>> >>
        /\ SlotReferences(nodes, <<n, 0>>, v)
        /\ nodes[m].inputs = <<>>
        /\ LET r == replace_all_uses_with(values, nodes, v, o)
           IN /\ r.nodes[n].inputs[1] = o
              /\ num_uses(r.values, r.nodes, o) = num_uses(values, nodes, o) + 1
              /\ num_uses(r.values, r.nodes, v) = 0

\* The number of times entry e occurs in sequence q.
Occurrences(q, e) == Cardinality({k \in DOMAIN q : q[k] = e})

\* The input slots of live nodes that reference Value v, as (node, position).
UsesOf(v) ==
    {e \in Alive \X (0 .. MaxInputs) : SlotReferences(nodes, e, v)}

\* For every Value v, live node n and position i, (n, i) occurs in
\* v.consumers() once when input slot i of n references v and not at all
\* otherwise; v.num_uses() is the number of input slots of live nodes that
\* reference v.
ConsumersMirrorInputs ==
    \A v \in Values :
        /\ \A e \in Alive \X (0 .. MaxInputs) :
               Occurrences(consumers(values, nodes, v), e) =
                   IF SlotReferences(nodes, e, v) THEN 1 ELSE 0
        /\ num_uses(values, nodes, v) = Cardinality(UsesOf(v))

\* C15 as stated: in every reachable state of a behaviour in which input
\* lists are changed only by node_add_input and by replace_all_uses_with with
\* another Value, the consumers() of every Value mirror the input slots that
\* reference it.
C15_TrackedInputsMirrorConsumers ==
    discipline # "self" => ConsumersMirrorInputs

\* C15: in every reachable state of a behaviour in which input lists are
\* changed only by node_add_input and by replace_all_uses_with with another
\* Value, and consumer lists only by these two and by prune_dead_consumers,
\* the consumers() of every Value mirror the input slots that reference it.
C15_PairedInputsMirrorConsumers ==
    discipline = "paired" => ConsumersMirrorInputs

\* Both inputs of a live node reference one Value whose entries are in the
\* order (n, 1), (n, 0), which only a replacement of the Value input 0
\* referenced produces, and num_uses() is 2.
C15_Witness ==
    \E v \in Values, n \in Alive :
        /\ discipline = "paired"
        /\ nodes[n].inputs = <<v, v>>
        /\ values[v].consumers = << <<n, 1>>, <<n, 0>> >>
        /\ num_uses(values, nodes, v) = 2
        /\ \A w \in Values \ {v} : num_uses(values, nodes, w) = 0

\* The stored entries of Value v in table V whose node is not among live.
StaleEntries(V, v, live) == SelectSeq(V[v].consumers, LAMBDA e : e[1] \notin live)

\* A step that calls prune_dead_consumers or clear_consumers
\* (replace_all_uses_with calls clear_consumers).
PruneOrClear ==
    \/ DoPruneDeadConsumers
    \/ DoClearConsumers
    \/ DoReplaceAllUsesWith

\* A step that calls a consumer-list removal explicitly.
ExplicitRemoval ==
    \/ PruneOrClear
    \/ DoRemoveConsumer

\* A step that destroys a node n leaves the stored consumer entries of every
\* Value as they are, yet consumers() of every Value has no pair of n,
\* num_uses() has dropped by the number of entries of n, and producer()
\* returns nothing for every Value whose producer was n; and after every step
\* no read reports a destroyed node.
ReadsFilterDestroyed ==
    /\ \A n \in Alive :
           ~nodes'[n].alive =>
               \A v \in Values :
                   /\ values'[v].consumers = values[v].consumers
                   /\ \A e \in Range(consumers(values', nodes', v)) : e[1] # n
                   /\ num_uses(values', nodes', v) =
                          num_uses(values, nodes, v) - LiveEntriesOf(values, v, n)
                   /\ values[v].producer = n =>
                          /\ producer(values, nodes, v) = n
                          /\ producer(values', nodes', v) = NoNode
                          /\ values'[v].producer = n
    /\ \A v \in Values :
           /\ \A e \in Range(consumers(values', nodes', v)) : nodes'[e[1]].alive
           /\ producer(values', nodes', v) # NoNode =>
                  nodes'[producer(values', nodes', v)].alive

\* C12 as stated: every step filters destroyed nodes out of the reads as
\* above, and in every step that calls neither prune_dead_consumers nor
\* clear_consumers the stored entries of destroyed nodes stay stored.
C12_StaleUntilPruneOrClear ==
    [][/\ ReadsFilterDestroyed
       /\ \A v \in Values :
              ~PruneOrClear =>
                  StaleEntries(values', v, Alive) = StaleEntries(values, v, Alive)
      ]_vars

\* C12: every step filters destroyed nodes out of the reads as above, and in
\* every step that calls none of prune_dead_consumers, clear_consumers and
\* remove_consumer the stored entries of destroyed nodes stay stored.
C12_DanglingReferencesFiltered ==
    [][/\ ReadsFilterDestroyed
       /\ \A v \in Values :
              ~ExplicitRemoval =>
                  StaleEntries(values', v, Alive) = StaleEntries(values, v, Alive)
      ]_vars

\* A node that was the producer of a Value and a consumer of a Value is
\* destroyed: its entry is still stored, num_uses() is 0, producer() returns
\* nothing.
C12_Witness ==
    \E n \in Made \ Alive, v \in Values, w \in Values :
        /\ values[v].consumers = << <<n, 0>> >>
        /\ num_uses(values, nodes, v) = 0
        /\ consumers(values, nodes, v) = <<>>
        /\ values[w].producer = n
        /\ producer(values, nodes, w) = NoNode

\* C14: in every reachable state, for two Values v and o,
\* v.replace_all_uses_with(o) leaves unchanged the name, shape and type of
\* every Value, the producer reference of every Value, every node's output
\* list and existence, the consumer entries o already had (they stay first,
\* in their order), the consumer entries of third Values, the length of every
\* input list, and every input slot that is not a live consumer position of v.
C14_ReplaceLeavesRestUnchanged ==
    \A v \in Values : \A o \in Values \ {v} :
        LET live == consumers(values, nodes, v)
            r == replace_all_uses_with(values, nodes, v, o)
        IN /\ \A w \in Values :
                  /\ r.values[w].name = values[w].name
                  /\ r.values[w].shape = values[w].shape
                  /\ r.values[w].type_ = values[w].type_
                  /\ r.values[w].producer = values[w].producer
                  /\ w \notin {v, o} => r.values[w] = values[w]
           /\ Len(r.values[o].consumers) >= Len(values[o].consumers)
           /\ SubSeq(r.values[o].consumers, 1, Len(values[o].consumers)) =
                  values[o].consumers
           /\ DOMAIN r.nodes = DOMAIN nodes
           /\ \A n \in Made :
                  /\ r.nodes[n].outputs = nodes[n].outputs
                  /\ r.nodes[n].alive = nodes[n].alive
                  /\ Len(r.nodes[n].inputs) = Len(nodes[n].inputs)
                  /\ \A i \in DOMAIN nodes[n].inputs :
                         <<n, i - 1>> \notin Range(live) =>
                             r.nodes[n].inputs[i] = nodes[n].inputs[i]

\* Both Values have a producer, a node with an output consumes v at input 0
\* and o at input 1: the replacement rewrites input 0 alone and puts (n, 0)
\* after the entry o had.
C14_Witness ==
    \E v \in Values, o \in Values, n \in Alive :
        /\ v # o
        /\ values[v].producer # NoNode /\ values[o].producer # NoNode
        /\ nodes[n].outputs # <<>>
        /\ nodes[n].inputs = <<v, o>>
        /\ values[v].consumers = << <<n, 0>> >>
        /\ values[o].consumers = << <<n, 1>> >>
        /\ LET r == replace_all_uses_with(values, nodes, v, o)
           IN /\ r.nodes[n].inputs = <<o, o>>
              /\ r.values[o].consumers = << <<n, 1>>, <<n, 0>> >>
              /\ r.values[o].producer = values[o].producer

\* C17: in every reachable state, for every Value v and every x that is None
\* or a reference to a node made so far, after set_producer(x) producer()
\* returns x's node if it is alive and nothing otherwise; the name, shape,
\* type and consumer entries of v and every other Value are as before; and
\* every step that calls set_producer leaves every node's input and output
\* list as it was.
C17_SetProducerOnlyReplacesProducer ==
    [][/\ \A v \in Values, x \in {NoNode} \cup Made :
              LET V1 == set_producer(values, v, x)
              IN /\ producer(V1, nodes, v) = IF x \in Alive THEN x ELSE NoNode
                 /\ V1[v].producer = x
                 /\ V1[v].consumers = values[v].consumers
                 /\ V1[v].name = values[v].name
                 /\ V1[v].shape = values[v].shape
                 /\ V1[v].type_ = values[v].type_
                 /\ \A w \in Values \ {v} : V1[w] = values[w]
       /\ DoSetProducer => nodes' = nodes
      ]_vars

\* set_producer has named a live node that does not list the Value among its
\* outputs, and the consumer entry of the Value is still there; another
\* Value's producer reference names a destroyed node and producer() returns
\* nothing for it.
C17_Witness ==
    \E v \in Values, w \in Values, x \in Alive, y \in Made \ Alive :
        /\ producer(values, nodes, v) = x
        /\ v \notin Range(nodes[x].outputs)
        /\ values[v].consumers # <<>>
        /\ values[w].producer = y
        /\ producer(values, nodes, w) = NoNode

\* The live nodes whose output list includes Value v.
ProducersOf(v) == {n \in Alive : v \in Range(nodes[n].outputs)}

\* C16: in every reachable state of a behaviour in which output lists are
\* changed only by node_add_output, every Value is in the output list of at
\* most one live node, and producer() returns that node, or nothing when
\* there is none.
C16_AtMostOneProducer ==
    \A v \in Values :
        /\ Cardinality(ProducersOf(v)) <= 1
        /\ \A n \in ProducersOf(v) : producer(values, nodes, v) = n
        /\ ProducersOf(v) = {} => producer(values, nodes, v) = NoNode

\* Properties of the metadata store.

\* C20: in every reachable state of a store, for every key k and values X
\* and Y: after insert(k, X) is_valid(k) is true; after invalidate(k) then,
\* is_valid(k) is false while get(k) at X's type still returns X and
\* contains_key(k) is true; after insert(k, Y) then, is_valid(k) is true
\* again and get(k) at Y's type returns Y.
C20_InsertInvalidateInsert ==
    \A k \in Keys, X \in Boxed, Y \in Boxed :
        LET M1 == insert(Store, k, X)
            M2 == invalidate(M1, k)
            M3 == insert(M2, k, Y)
        IN /\ is_valid(M1, k)
           /\ get(M1, k, X.ty) = <<X.val>>
           /\ ~is_valid(M2, k)
           /\ get(M2, k, X.ty) = <<X.val>>
           /\ contains_key(M2, k)
           /\ is_valid(M3, k)
           /\ get(M3, k, Y.ty) = <<Y.val>>
           /\ contains_key(M3, k)

\* A key was inserted and then invalidated: it is present, its value is
\* still read, and it is not valid; inserting it again makes it valid.
C20_Witness ==
    \E k \in Keys, T \in Types :
        /\ contains_key(Store, k)
        /\ k \in invalid_keys
        /\ ~is_valid(Store, k)
        /\ get(Store, k, T) # <<>>
        /\ \A Y \in Boxed : is_valid(insert(Store, k, Y), k)

\* C21: in every reachable state of a store, for every key k, is_valid(k) is
\* true exactly when k is present and was not invalidated since it was last
\* inserted; invalidate(k) on an absent k leaves contains_key(k) and
\* is_valid(k) false; and after clear() the store is empty and is_valid is
\* false for every key.
C21_ValidIffPresentAndNotInvalidated ==
    /\ \A k \in Keys :
           /\ is_valid(Store, k) <=> (contains_key(Store, k) /\ k \notin stale)
           /\ ~contains_key(Store, k) =>
                  /\ ~contains_key(invalidate(Store, k), k)
                  /\ ~is_valid(invalidate(Store, k), k)
                  /\ invalidate(Store, k).data = data
    /\ LET M == MetadataStore_clear(Store)
       IN /\ MetadataStore_is_empty(M)
          /\ MetadataStore_len(M) = 0
          /\ \A k \in Keys : ~is_valid(M, k) /\ ~contains_key(M, k)

\* One key is absent and was invalidated, one is present and valid, one is
\* present and was invalidated after its insert.
C21_Witness ==
    \E a \in Keys, b \in Keys, c \in Keys :
        /\ ~contains_key(Store, a) /\ a \in stale /\ ~is_valid(Store, a)
        /\ contains_key(Store, b) /\ is_valid(Store, b)
        /\ contains_key(Store, c) /\ c \in stale /\ ~is_valid(Store, c)

\* C22: in every reachable state of a store, for every key k and type T,
\* get<T>(k) and get_mut<T>(k) return the stored payload when k is present
\* and was stored with type T and nothing otherwise, and get_mut leaves the
\* data and the invalid flags as they were.
C22_GetOnlyAtStoredType ==
    \A k \in Keys, T \in Types :
        LET expected == IF k \in DOMAIN data /\ data[k].ty = T
                        THEN <<data[k].val>> ELSE <<>>
        IN /\ get(Store, k, T) = expected
           /\ get_mut(Store, k, T).ret = expected
           /\ get_mut(Store, k, T).store = Store

\* A key is present with one type and is asked for with another, and another
\* key is absent: both reads return nothing; the first key read at its own
\* type returns its payload.
C22_Witness ==
    \E k \in Keys, a \in Keys, T \in Types, U \in Types :
        /\ contains_key(Store, k) /\ data[k].ty = T /\ U # T
        /\ get(Store, k, U) = <<>>
        /\ get(Store, k, T) = <<data[k].val>>
        /\ ~contains_key(Store, a)
        /\ get(Store, a, T) = <<>>

\* C23: in every reachable state of a store, for every key k present with
\* stored type T, remove<T>(k) returns the stored payload and leaves a store
\* without k and without k's invalid flag, the other keys and flags as they
\* were, so that contains_key(k) and is_valid(k) are false; and insert(k, Y)
\* after it makes k valid with value Y.
C23_RemoveDeletesKeyAndFlag ==
    \A k \in DOMAIN data :
        LET r == remove(Store, k, data[k].ty)
        IN /\ r.ret = <<data[k].val>>
           /\ ~contains_key(r.store, k)
           /\ ~is_valid(r.store, k)
           /\ k \notin r.store.invalid_keys
           /\ DOMAIN r.store.data = DOMAIN data \ {k}
           /\ \A j \in DOMAIN data \ {k} : r.store.data[j] = data[j]
           /\ r.store.invalid_keys = invalid_keys \ {k}
           /\ \A Y \in Boxed :
                  /\ is_valid(insert(r.store, k, Y), k)
                  /\ get(insert(r.store, k, Y), k, Y.ty) = <<Y.val>>

\* A key is present and flagged invalid, another is present and valid:
\* removing the first returns its payload, takes its flag away and leaves
\* the second as it is.
C23_Witness ==
    \E k \in DOMAIN data, j \in DOMAIN data :
        /\ k \in invalid_keys
        /\ is_valid(Store, j)
        /\ remove(Store, k, data[k].ty).ret = <<data[k].val>>
        /\ remove(Store, k, data[k].ty).store.invalid_keys = invalid_keys \ {k}
        /\ is_valid(remove(Store, k, data[k].ty).store, j)

\* Properties of Shape.

\* The product of the numbers of sequence q from position k on.
RECURSIVE ProductFrom(_, _)
ProductFrom(q, k) == IF k > Len(q) THEN 1 ELSE q[k] * ProductFrom(q, k + 1)

\* The dimensions of S as written, and as read by `as usize`.
Written(S) == [k \in DOMAIN S.dims |-> S.dims[k].v]

ReadAsUsize(S) == [k \in DOMAIN S.dims |-> as_usize(S.dims[k].v)]

SomeSymbolic(S) == \E k \in DOMAIN S.dims : is_symbol(S.dims[k])

\* C24 as stated: in every reachable state size() is 1 when the rank is 0,
\* nothing when a dimension is symbolic, and otherwise the product of the
\* dimensions; to_vec() is nothing exactly when size() is nothing and
\* otherwise the dimensions in order.
C24_SizeIsProduct ==
    /\ rank(shape) = 0 => size(shape) = <<1>>
    /\ SomeSymbolic(shape) => size(shape) = <<>>
    /\ (rank(shape) > 0 /\ ~SomeSymbolic(shape)) =>
           size(shape) = <<ProductFrom(Written(shape), 1)>>
    /\ (to_vec(shape) = <<>>) <=> (size(shape) = <<>>)
    /\ to_vec(shape) # <<>> =>
           /\ Len(to_vec(shape)[1]) = rank(shape)
           /\ \A k \in DOMAIN shape.dims : to_vec(shape)[1][k] = shape.dims[k].v

\* C24: in every reachable state size() is 1 when the rank is 0, nothing
\* when a dimension is symbolic, and otherwise the product of the dimensions
\* read as usize (a negative dimension counts as 2^IntBits plus itself),
\* capped at the largest usize; to_vec() is nothing exactly when size() is
\* nothing and otherwise the dimensions in order.
C24_SizeIsSaturatedProduct ==
    /\ rank(shape) = 0 => size(shape) = <<1>>
    /\ SomeSymbolic(shape) => size(shape) = <<>>
    /\ (rank(shape) > 0 /\ ~SomeSymbolic(shape)) =>
           size(shape) = <<Min({UsizeMax, ProductFrom(ReadAsUsize(shape), 1)})>>
    /\ (to_vec(shape) = <<>>) <=> (size(shape) = <<>>)
    /\ to_vec(shape) # <<>> =>
           /\ Len(to_vec(shape)[1]) = rank(shape)
           /\ \A k \in DOMAIN shape.dims : to_vec(shape)[1][k] = shape.dims[k].v

\* Two positive dimensions whose product is beyond the largest usize: size()
\* is the largest usize.
C24_Witness ==
    /\ rank(shape) = MaxRank
    /\ \A k \in DOMAIN shape.dims : is_int(shape.dims[k]) /\ shape.dims[k].v > 0
    /\ ProductFrom(Written(shape), 1) > UsizeMax
    /\ size(shape) = <<UsizeMax>>
    /\ to_vec(shape) # <<>>

\* C25: in every reachable state after freeze() was called on the Shape
\* observed, is_frozen() is true and the dimensions, denotations, rank and
\* size() are those it had when freeze() was first called.
C25_FreezeIsPermanent ==
    frozenAs # <<>> =>
        /\ is_frozen(shape)
        /\ shape.dims = frozenAs[1].dims
        /\ shape.denotations = frozenAs[1].denotations
        /\ rank(shape) = rank(frozenAs[1])
        /\ size(shape) = size(frozenAs[1])

\* A Shape with a dimension was frozen and a later set_dim or set_denotation
\* on it ended in a panic.
C25_Witness ==
    /\ frozenAs # <<>>
    /\ rank(shape) >= 1
    /\ shapePanic
    /\ is_frozen(shape)

\* C26: in every reachable state, for every index and operand, set_dim and
\* set_denotation end in a panic exactly when the Shape is frozen or the
\* index is not below rank(); the Shape is then as before; otherwise the
\* addressed dimension (or denotation) is the operand and everything else is
\* as before.
C26_SetPanicsIffFrozenOrOutOfRange ==
    /\ Len(shape.denotations) = rank(shape)
    /\ \A index \in 0 .. MaxRank :
           /\ \A dim \in SymbolicDim :
                  LET r == set_dim(shape, index, dim)
                  IN /\ r.panic <=> (is_frozen(shape) \/ index >= rank(shape))
                     /\ r.panic => r.shape = shape
                     /\ ~r.panic =>
                            /\ r.shape.dims[index + 1] = dim
                            /\ Len(r.shape.dims) = rank(shape)
                            /\ \A k \in DOMAIN shape.dims \ {index + 1} :
                                   r.shape.dims[k] = shape.dims[k]
                            /\ r.shape.denotations = shape.denotations
                            /\ r.shape.frozen = shape.frozen
           /\ \A denotation \in Denotations :
                  LET r == set_denotation(shape, index, denotation)
                  IN /\ r.panic <=> (is_frozen(shape) \/ index >= rank(shape))
                     /\ r.panic => r.shape = shape
                     /\ ~r.panic =>
                            /\ r.shape.denotations[index + 1] = denotation
                            /\ Len(r.shape.denotations) = rank(shape)
                            /\ \A k \in DOMAIN shape.denotations \ {index + 1} :
                                   r.shape.denotations[k] = shape.denotations[k]
                            /\ r.shape.dims = shape.dims
                            /\ r.shape.frozen = shape.frozen

\* A Shape that is not frozen has a dimension and a denotation that were set
\* and the last call, with an index past the end, ended in a panic.
C26_Witness ==
    /\ ~is_frozen(shape)
    /\ frozenAs = <<>>
    /\ shapePanic
    /\ rank(shape) >= 1
    /\ get_denotation(shape, 0) # <<>>
    /\ set_dim(shape, rank(shape), from_int(1)).panic
    /\ ~set_dim(shape, 0, from_int(1)).panic

\* C27: in every reachable state every concrete dimension of the Shape is
\* at least 0.
C27_DimensionsNonNegative ==
    \A k \in DOMAIN shape.dims : is_int(shape.dims[k]) => shape.dims[k].v >= 0

\* ---------------------------------------------------------------------------
\* NameAuthority properties (NameSpec)
\* ---------------------------------------------------------------------------

\* C28: since the last clear(), no name returned by unique_value_name was
\* returned or registered as a value name before it, and no name returned by
\* unique_node_name was returned or registered as a node name before it; the
\* same is true of the name either call would return next, whatever preferred
\* name and op_type it is given.
C28_NeverIssuesCollidingName ==
    /\ ~collided
    /\ \A preferred_name \in {<<>>} \cup {<<n>> : n \in ValueNamePool} :
           unique_value_name(authority, preferred_name).ret \notin seenValues
    /\ \A op_type \in OpTypes :
           \A preferred_name \in {<<>>} \cup {<<n>> : n \in NodeNamePool} :
               unique_node_name(authority, op_type, preferred_name).ret \notin seenNodes

\* Both generated names the counter would produce first were registered by the
\* caller, and unique_value_name stepped over them.
C28_Witness ==
    /\ issued = <<"val_2">>
    /\ {"val_0", "val_1"} \subseteq seenValues
    /\ authority.value_counter = 3

\* ---------------------------------------------------------------------------
\* Traversal under mutation at the ends (ListSpec)
\* ---------------------------------------------------------------------------

\* The elements that were in the container when the traversal started and
\* have not been removed, in list order.
Survivors == SelectSeq(atStart, LAMBDA e : e \notin removed)

YieldedSurvivors == SelectSeq(yielded, LAMBDA e : e \in Range(Survivors))

IsPrefix(s, t) == Len(s) <= Len(t) /\ s = SubSeq(t, 1, Len(s))

\* C29: whatever pushes and pops at either end are interleaved with the steps
\* of a traversal, no step panics or hangs, the elements that were in the
\* container when the traversal started and were not removed are yielded in
\* list order with none yielded twice and none passed over, and when the
\* traversal reports its end every one of them has been yielded.
C29_SurvivorsYieldedOnceInOrder ==
    /\ ~list.panic
    /\ ~diverged
    /\ it.live => IsPrefix(YieldedSurvivors, Survivors)
    /\ ended => YieldedSurvivors = Survivors

\* A traversal of three elements has ended; one of them was removed on the
\* way, the traversal stepped over its link and yielded the other two.
C29_Witness ==
    /\ ended
    /\ Len(atStart) = 3
    /\ Len(Survivors) = 2
    /\ skips >= 1
    /\ yielded = Survivors

\* ---------------------------------------------------------------------------
\* Relocation of the element under the cursor (MoveSpec)
\* ---------------------------------------------------------------------------

C31_OutOfRangeEntryDropped ==
    \A v \in Values : \A o \in Values :
        LET live == consumers(values, nodes, v)
            r == replace_all_uses_with(values, nodes, v, o)
        IN \A e \in Range(live) :
               ~SlotExists(nodes, e) =>
                   /\ ~SlotExists(r.nodes, e)
                   /\ Occurrences(r.values[o].consumers, e) =
                          (IF o = v THEN 0 ELSE Occurrences(values[o].consumers, e))
                   /\ r.values[v].consumers = <<>>
                   /\ DOMAIN r.nodes = DOMAIN nodes
                   /\ \A n \in Made :
                          /\ r.nodes[n].alive = nodes[n].alive
                          /\ Len(r.nodes[n].inputs) = Len(nodes[n].inputs)

\* A live node with one input holds the Value at input 0 and is also stored
\* at position 1, which it does not have: the replacement receives (n, 0)
\* alone, the node keeps one input, and the replaced Value keeps no entry.
C31_Witness ==
    \E v \in Values, o \in Values, n \in Alive :
        /\ v # o
        /\ nodes[n].inputs = <<v>>
        /\ values[v].consumers = << <<n, 0>>, <<n, 1>> >>
        /\ values[o].consumers = <<>>
        /\ LET r == replace_all_uses_with(values, nodes, v, o)
           IN /\ r.nodes[n].inputs = <<o>>
              /\ r.values[o].consumers = << <<n, 0>> >>
              /\ r.values[v].consumers = <<>>

\* C32: in every reachable state, for every live node n and every Value v,
\* node_add_input(n, v) makes v the last input of n, after the inputs n had,
\* and stores the entry (n, k) last in v's consumer list, k being the number
\* of inputs n had, so that v has one use more; node_add_output(n, v) makes
\* v the last output of n, after the outputs n had, and producer() of v
\* returns n.  Neither touches another node or another Value, and this is so
\* also when v is already an input of n.
C32_HelpersDoBothEffects ==
    \A n \in Alive : \A v \in Values :
        LET k == Len(nodes[n].inputs)
            a == node_add_input(values, nodes, n, v)
            b == node_add_output(values, nodes, n, v)
        IN /\ a.nodes[n].inputs = Append(nodes[n].inputs, v)
           /\ a.values[v].consumers = Append(values[v].consumers, <<n, k>>)
           /\ SlotReferences(a.nodes, <<n, k>>, v)
           /\ num_uses(a.values, a.nodes, v) = num_uses(values, nodes, v) + 1
           /\ a.nodes[n].outputs = nodes[n].outputs
           /\ a.values[v].producer = values[v].producer
           /\ b.nodes[n].outputs = Append(nodes[n].outputs, v)
           /\ producer(b.values, b.nodes, v) = n
           /\ b.nodes[n].inputs = nodes[n].inputs
           /\ b.values[v].consumers = values[v].consumers
           /\ \A m \in Made \ {n} : a.nodes[m] = nodes[m] /\ b.nodes[m] = nodes[m]
           /\ \A w \in Values \ {v} : a.values[w] = values[w] /\ b.values[w] = values[w]

\* A node that consumes a Value at input 0 and produces another one has just
\* been given the first Value as an input a second time: the Value holds the
\* entries (n, 0) and (n, 1) and has two uses.
C32_Witness ==
    \E n \in Alive, v \in Values, w \in Values :
        /\ v # w
        /\ nodes[n].inputs = <<v, v>>
        /\ values[v].consumers = << <<n, 0>>, <<n, 1>> >>
        /\ num_uses(values, nodes, v) = 2
        /\ nodes[n].outputs = <<w>>
        /\ producer(values, nodes, w) = n

\* ---------------------------------------------------------------------------
\* NameAuthority: what the calls return (NameSpec)
\* ---------------------------------------------------------------------------

ValueNameOf(k) == "val_" \o ToString(k)

NodeNameOf(op_type, k) == "node_" \o op_type \o "_" \o ToString(k)

\* The first counter value, from `from` on, whose name is not in `names`.
FirstFreeValue(names, from) ==
    Min({k \in from .. from + Cardinality(names) : ValueNameOf(k) \notin names})

FirstFreeNode(names, op_type, from) ==
    Min({k \in from .. from + Cardinality(names) : NodeNameOf(op_type, k) \notin names})

PreferredValueNames == {<<>>} \cup {<<n>> : n \in ValueNamePool}

PreferredNodeNames == {<<>>} \cup {<<n>> : n \in NodeNamePool}

UniqueValueNameAsSpecified ==
    \A preferred_name \in PreferredValueNames :
        LET r == unique_value_name(authority, preferred_name)
            taken == preferred_name # <<>> /\ preferred_name[1] \notin authority.value_names
            k == FirstFreeValue(authority.value_names, authority.value_counter)
        IN /\ preferred_name # <<>> => (r.ret = preferred_name[1] <=> taken)
           /\ taken => r.authority.value_counter = authority.value_counter
           /\ ~taken => /\ r.ret = ValueNameOf(k)
                        /\ r.authority.value_counter = k + 1
           /\ r.authority.value_names = authority.value_names \cup {r.ret}
           /\ r.authority.node_names = authority.node_names
           /\ r.authority.node_counter = authority.node_counter

UniqueNodeNameAsSpecified ==
    \A op_type \in OpTypes : \A preferred_name \in PreferredNodeNames :
        LET r == unique_node_name(authority, op_type, preferred_name)
            taken == preferred_name # <<>> /\ preferred_name[1] \notin authority.node_names
            k == FirstFreeNode(authority.node_names, op_type, authority.node_counter)
        IN /\ preferred_name # <<>> => (r.ret = preferred_name[1] <=> taken)
           /\ taken => r.authority.node_counter = authority.node_counter
           /\ ~taken => /\ r.ret = NodeNameOf(op_type, k)
                        /\ r.authority.node_counter = k + 1
           /\ r.authority.node_names = authority.node_names \cup {r.ret}
           /\ r.authority.value_names = authority.value_names
           /\ r.authority.value_counter = authority.value_counter

RegisterAsSpecified ==
    /\ \A name \in ValueNamePool :
           LET r == register_value_name(authority, name)
           IN /\ r.ret = (name \notin authority.value_names)
              /\ r.authority = [authority EXCEPT !.value_names = @ \cup {name}]
    /\ \A name \in NodeNamePool :
           LET r == register_node_name(authority, name)
           IN /\ r.ret = (name \notin authority.node_names)
              /\ r.authority = [authority EXCEPT !.node_names = @ \cup {name}]

\* C33: in every reachable state unique_value_name returns the preferred
\* name exactly when one is given and it is not tracked for values, and
\* otherwise val_k for the first k from the value counter on whose name is
\* not tracked, leaving the counter at k + 1; unique_node_name does the same
\* with node_{op_type}_k and the one node counter, whatever the op type;
\* each call adds the returned name to its own set and leaves the other set
\* and the other counter alone; register_*_name returns true exactly when
\* the name was not tracked and only adds it; and no step other than clear()
\* lowers a counter.
C33_NamesAsSpecified ==
    /\ [](UniqueValueNameAsSpecified /\ UniqueNodeNameAsSpecified /\ RegisterAsSpecified)
    /\ [][ DoNameClear \/ (/\ authority'.value_counter >= authority.value_counter
                           /\ authority'.node_counter >= authority.node_counter) ]_vars

\* After node_Add_0 was issued, a call with op type Mul has returned
\* node_Mul_1 from the same counter; no value name was touched.
C33_Witness ==
    /\ issued = <<"node_Mul_1">>
    /\ authority.node_names = {"node_Add_0", "node_Mul_1"}
    /\ authority.node_counter = 2
    /\ authority.value_names = {}
    /\ authority.value_counter = 0

\* ---------------------------------------------------------------------------
\* Graph initializers (InitializerSpec)
\* ---------------------------------------------------------------------------

\* The map holds at most one Value under a name, and a Value only under a
\* name it had when add_initializer was given it.
KeyedByNameWhenAdded ==
    /\ \A e \in initializers : \A f \in initializers : e[1] = f[1] => e = f
    /\ \A e \in initializers : e[1] \in namesWhenAdded[e[2]]
    /\ \A name \in Names : \A v \in Values :
           get_initializer(initializers, name) = <<v>> => name \in namesWhenAdded[v]

\* add_initializer puts the Value under its present name, in the place of
\* what that name held, and leaves the other names alone.
AddReplaces ==
    \A v \in Values :
        LET r == add_initializer(initializers, values, v)
        IN /\ get_initializer(r.initializers, values[v].name) = <<v>>
           /\ \A name \in Names \ {values[v].name} :
                  get_initializer(r.initializers, name) = get_initializer(initializers, name)
           /\ r.values = values

\* remove_initializer returns what get_initializer finds under the name and
\* leaves nothing under it, and leaves the other names alone.
RemoveByName ==
    \A name \in Names :
        LET r == remove_initializer(initializers, name)
        IN /\ r.ret = get_initializer(initializers, name)
           /\ get_initializer(r.initializers, name) = <<>>
           /\ \A other \in Names \ {name} :
                  get_initializer(r.initializers, other) = get_initializer(initializers, other)

\* C34: in every reachable state the initializers hold at most one Value per
\* name and hold a Value only under a name it had when it was added, whatever
\* its name is now; add_initializer puts the Value in the place of the one its
\* name held; get_initializer and remove_initializer find it under that name
\* alone; and a step of add_initializer or remove_initializer changes no
\* Value and no node, so consumer entries, num_uses() and producer() of every
\* Value are as before.
C34_InitializersKeyedByName ==
    /\ [](KeyedByNameWhenAdded /\ AddReplaces /\ RemoveByName)
    /\ [][ (DoAddInitializer \/ DoRemoveInitializer) =>
               /\ nodes' = nodes
               /\ \A v \in Values :
                      /\ values'[v] = values[v]
                      /\ num_uses(values', nodes', v) = num_uses(values, nodes, v)
                      /\ producer(values', nodes', v) = producer(values, nodes, v) ]_vars

\* Value 1 was added under name 1; Value 2, renamed to 1 and used by a node
\* that also produces it, was added and took its place; Value 2 was renamed
\* again and is still found under name 1 and not under its present name.
C34_Witness ==
    /\ initializers = {<<1, 2>>}
    /\ 1 \in namesWhenAdded[1]
    /\ values[2].name = 2
    /\ get_initializer(initializers, 1) = <<2>>
    /\ get_initializer(initializers, 2) = <<>>
    /\ num_uses(values, nodes, 2) = 1
    /\ producer(values, nodes, 2) # NoNode

\* ---------------------------------------------------------------------------
\* Use-def tracking: replacement by itself, pruning
\* ---------------------------------------------------------------------------

\* C35 as stated: in every reachable state, for every Value v, after
\* v.replace_all_uses_with(v) every input slot of a live node that references
\* v and was recorded as a consumer entry of v is still recorded as one, and
\* v.num_uses() is what it was.
C35_SelfReplacementKeepsUses ==
    \A v \in Values :
        LET r == replace_all_uses_with(values, nodes, v, v)
        IN /\ \A e \in Range(consumers(values, nodes, v)) :
                  SlotReferences(r.nodes, e, v) =>
                      e \in Range(consumers(r.values, r.nodes, v))
           /\ num_uses(r.values, r.nodes, v) = num_uses(values, nodes, v)

\* C36: in every reachable state, for every Value v, prune_dead_consumers()
\* on v changes neither consumers(), nor num_uses(), nor producer() of any
\* Value, changes no field of v other than the stored entries and no other
\* Value, and a second call directly after it changes nothing; a step of
\* prune_dead_consumers changes no node.
C36_PruneInvisibleAndIdempotent ==
    /\ [](\A v \in Values :
              LET p == prune_dead_consumers(values, nodes, v)
              IN /\ \A w \in Values :
                        /\ consumers(p, nodes, w) = consumers(values, nodes, w)
                        /\ num_uses(p, nodes, w) = num_uses(values, nodes, w)
                        /\ producer(p, nodes, w) = producer(values, nodes, w)
                        /\ w # v => p[w] = values[w]
                 /\ p[v] = [values[v] EXCEPT !.consumers = p[v].consumers]
                 /\ prune_dead_consumers(p, nodes, v) = p)
    /\ [][DoPruneDeadConsumers => nodes' = nodes]_vars

\* A Value with a producer stores an entry of a destroyed node before an
\* entry of a live one: pruning shortens the stored list to the live entry,
\* and the readers return what they returned before.
C36_Witness ==
    \E v \in Values, n \in Alive, d \in Made \ Alive :
        /\ values[v].consumers = << <<d, 0>>, <<n, 0>> >>
        /\ producer(values, nodes, v) = n
        /\ LET p == prune_dead_consumers(values, nodes, v)
           IN /\ p[v].consumers = << <<n, 0>> >>
              /\ consumers(p, nodes, v) = consumers(values, nodes, v)
              /\ num_uses(p, nodes, v) = 1

\* ---------------------------------------------------------------------------
\* MetadataStore: a remove that returns nothing
\* ---------------------------------------------------------------------------

\* C37 as stated: in every reachable state of a store, for every key k and
\* every type T, a remove<T>(k) that returns nothing leaves the store as it
\* was: the same keys with the same values, and the same validity of every
\* key.
C37_FailedRemoveLeavesStoreUnchanged ==
    \A k \in Keys : \A T \in Types :
        LET r == remove(Store, k, T)
        IN r.ret = <<>> =>
               /\ r.store.data = data
               /\ \A j \in Keys : is_valid(r.store, j) = is_valid(Store, j)

\* ---------------------------------------------------------------------------
\* A traversal after its end (ListSpec)
\* ---------------------------------------------------------------------------

\* C38: once a traversal has reported its end, every later step of it
\* reports the end again and yields nothing, without hanging, so no element
\* pushed after the end is ever yielded by it; a traversal started afresh
\* yields the container as it is, those elements included.
C38_EndIsFinal ==
    /\ [][ (ended /\ lastOp' = "next") =>
               /\ ret' = NoValue
               /\ ended'
               /\ yielded' = yielded
               /\ it' = it
               /\ ~diverged' ]_vars
    /\ [](afterEnd \cap Range(yielded) = {})
    /\ [](Running => collect(list) = ref)

\* After the traversal of one element had ended, an element was pushed at
\* the back and one at the front, and a further step reported the end again.
C38_Witness ==
    /\ lastOp = "next"
    /\ ended
    /\ ret = NoValue
    /\ yielded = <<1>>
    /\ afterEnd = {2, 3}
    /\ afterEnd \subseteq Range(ref)
    /\ collect(list) = ref
    /\ Len(ref) = 3

\* ---------------------------------------------------------------------------
\* The ring of links (ListSpec)
\* ---------------------------------------------------------------------------

\* The links passed when following next from link i until the sentinel; a
\* walk that has not come back after as many steps as there are links, or
\* that meets a missing reference, ends with NoLink.
RECURSIVE NextWalk(_, _, _)
NextWalk(L, i, fuel) ==
    IF i = root THEN <<>>
    ELSE IF i = NoLink \/ fuel = 0 THEN <<NoLink>>
    ELSE <<i>> \o NextWalk(L, L.links[i].next, fuel - 1)

RECURSIVE PrevWalk(_, _, _)
PrevWalk(L, i, fuel) ==
    IF i = root THEN <<>>
    ELSE IF i = NoLink \/ fuel = 0 THEN <<NoLink>>
    ELSE <<i>> \o PrevWalk(L, L.links[i].prev, fuel - 1)

Forward(L) == NextWalk(L, L.links[root].next, fresh(L))

Backward(L) == PrevWalk(L, L.links[root].prev, fresh(L))

Reverse(q) == [k \in 1 .. Len(q) |-> q[Len(q) + 1 - k]]

\* C39: in every reachable state following next from the sentinel comes
\* back to it after exactly len() links, none of them erased and each one
\* the prev of its successor; following prev passes the same links in
\* reverse order; the sentinel holds no value; and on a non-empty list the
\* first and the last link are live links other than the sentinel, so that
\* pop_front and pop_back never fall through to their final `None`.
C39_LinksFormRing ==
    /\ ~list.panic
    /\ NoLink \notin Range(Forward(list))
    /\ Len(Forward(list)) = len(list)
    /\ \A i \in Range(Forward(list)) : ~is_erased(list, i)
    /\ Backward(list) = Reverse(Forward(list))
    /\ list.links[root].value = NoValue
    /\ ~is_empty(list) =>
           /\ list.links[root].next # root /\ ~is_erased(list, list.links[root].next)
           /\ list.links[root].prev # root /\ ~is_erased(list, list.links[root].prev)
           /\ pop_front(list).ret # NoValue
           /\ pop_back(list).ret # NoValue
    /\ is_empty(list) => list.links[root].next = root /\ list.links[root].prev = root

\* Three elements were pushed, at both ends, and the one in the middle of
\* the pushes is left after a pop at each end: the ring is the sentinel and
\* one live link, and two erased links lie outside it.
C39_Witness ==
    /\ lastOp \in {"pop_front", "pop_back"}
    /\ fresh(list) = 4
    /\ len(list) = 1
    /\ nPop = 2
    /\ frontPushed # {}
    /\ Len(Forward(list)) = 1
    /\ Cardinality({i \in DOMAIN list.links : i # root /\ is_erased(list, i)}) = 2


====
